---- MODULE Spec2Model ----
(***************************************************************************)
(* A model of the sockpuppet socket layer: the Socket handle (socket.c),   *)
(* the process-wide error state (error.c) and the part of the operating    *)
(* system the handle talks to (descriptor table, errno, connection state). *)
(*                                                                         *)
(* Every C function is an operator of the same name.  It takes a Socket    *)
(* pointer p (a slot of the heap H, or NULL), its arguments, the heap H,   *)
(* the machine state m = [err, errno, fdt] and an oracle holding the       *)
(* outcomes of the system calls it makes, and returns [s, m, ret, calls,   *)
(* waited, ...]: the heap and the machine after the call, the returned     *)
(* value, the system calls issued on the handle's descriptor and whether   *)
(* the readiness wait was entered.  Every action applies one public        *)
(* function; the caller makes at most MaxOps calls.                        *)
(***************************************************************************)
EXTENDS Integers, Sequences, FiniteSets, TLC

VARIABLES sock, CURRENT_ERROR, errno, fdt, lastOp, prevClose, ops, stream, timer, race

vars == <<ops, stream, timer, race, sock, CURRENT_ERROR, errno, fdt, prevClose, lastOp>>

(***************************************************************************)
(* Bounds of the model.                                                    *)
(***************************************************************************)
\* Socket objects the heap can hold at once: calloc fails beyond.
NumHandles == 2
\* Size of the descriptor table: socket() and accept() fail beyond.
NumFds == 2
\* How many times one system call may be interrupted (EINTR) in a row.
MaxEINTR == 1
\* How many times an I/O loop may go round again before its last attempt.
MaxRetry == 1
MaxOps == 4

Handles == 1..NumHandles
Fds == 0..(NumFds - 1)

(***************************************************************************)
(* error.h: ErrorIO                                                        *)
(***************************************************************************)
ERROR_IO_NONE == 500
ERROR_IO_NO_RESOURCES == 501
ERROR_IO_NOT_AVAILABLE == 502
ERROR_IO_ACCESS_DENIED == 503
ERROR_IO_CONNECTED == 504
ERROR_IO_IN_PROGRESS == 505
ERROR_IO_ABORTED == 506
ERROR_IO_INVALID_ARGUMENT == 507
ERROR_IO_NOT_SUPPORTED == 508
ERROR_IO_TIMED_OUT == 509
ERROR_IO_WOULD_BLOCK == 510
ERROR_IO_ADDRESS_IN_USE == 511
ERROR_IO_CONNECTION_REFUSED == 512
ERROR_IO_NOT_CONNECTED == 513
ERROR_IO_QUOTA == 514
ERROR_IO_IS_DIRECTORY == 515
ERROR_IO_NOT_DIRECTORY == 516
ERROR_IO_NAMETOOLONG == 517
ERROR_IO_EXISTS == 518
ERROR_IO_NOT_EXISTS == 519
ERROR_IO_NO_MORE == 520
ERROR_IO_NOT_IMPLEMENTED == 521
ERROR_IO_FAILED == 522

(***************************************************************************)
(* <errno.h> of the POSIX build (Linux numbering), as named by the cases   *)
(* of error_get_io_from_system and by the retry loops of socket.c.         *)
(***************************************************************************)
EPERM == 1
ENOENT == 2
EINTR == 4
EBADF == 9
EAGAIN == 11
ENOMEM == 12
EACCES == 13
EFAULT == 14
EEXIST == 17
ENOTDIR == 20
EISDIR == 21
EINVAL == 22
ENFILE == 23
EMFILE == 24
ENOSPC == 28
ENAMETOOLONG == 36
ENOSYS == 38
ENOSR == 63
ENONET == 64
ENOTSOCK == 88
EPROTOTYPE == 91
ENOPROTOOPT == 92
EPROTONOSUPPORT == 93
EOPNOTSUPP == 95
EAFNOSUPPORT == 97
EADDRINUSE == 98
EADDRNOTAVAIL == 99
ENETDOWN == 100
ENETUNREACH == 101
ECONNABORTED == 103
ENOBUFS == 105
EISCONN == 106
ENOTCONN == 107
ETIMEDOUT == 110
ECONNREFUSED == 111
EHOSTDOWN == 112
EHOSTUNREACH == 113
EALREADY == 114
EINPROGRESS == 115
EDQUOT == 122

\* error.c: the switch of error_get_io_from_system, the branch built when neither
\* _WINDOWS nor __OS2__ is defined (ENOTSUP == EOPNOTSUPP); would_block is the
\* set of the case labels that return ERROR_IO_WOULD_BLOCK.
ErrnoSwitch(err_code, would_block) ==
  CASE err_code = 0 -> ERROR_IO_NONE
    [] err_code \in {EACCES, EPERM} -> ERROR_IO_ACCESS_DENIED
    [] err_code \in {ENOMEM, ENOSR, ENOBUFS, ENFILE, ENOSPC, EMFILE} -> ERROR_IO_NO_RESOURCES
    [] err_code \in {EINVAL, EBADF, ENOTSOCK, EFAULT, EPROTOTYPE} -> ERROR_IO_INVALID_ARGUMENT
    [] err_code \in {ENOPROTOOPT, EPROTONOSUPPORT, EAFNOSUPPORT, EOPNOTSUPP} -> ERROR_IO_NOT_SUPPORTED
    [] err_code \in {EADDRNOTAVAIL, ENETUNREACH, ENETDOWN, EHOSTDOWN, ENONET, EHOSTUNREACH} -> ERROR_IO_NOT_AVAILABLE
    [] err_code \in {EINPROGRESS, EALREADY} -> ERROR_IO_IN_PROGRESS
    [] err_code = EISCONN -> ERROR_IO_CONNECTED
    [] err_code = ECONNREFUSED -> ERROR_IO_CONNECTION_REFUSED
    [] err_code = ENOTCONN -> ERROR_IO_NOT_CONNECTED
    [] err_code = ECONNABORTED -> ERROR_IO_ABORTED
    [] err_code = EADDRINUSE -> ERROR_IO_ADDRESS_IN_USE
    [] err_code = ETIMEDOUT -> ERROR_IO_TIMED_OUT
    [] err_code = EDQUOT -> ERROR_IO_QUOTA
    [] err_code = EISDIR -> ERROR_IO_IS_DIRECTORY
    [] err_code = ENOTDIR -> ERROR_IO_NOT_DIRECTORY
    [] err_code = EEXIST -> ERROR_IO_EXISTS
    [] err_code = ENOENT -> ERROR_IO_NOT_EXISTS
    [] err_code = ENAMETOOLONG -> ERROR_IO_NAMETOOLONG
    [] err_code = ENOSYS -> ERROR_IO_NOT_IMPLEMENTED
    [] err_code \in would_block -> ERROR_IO_WOULD_BLOCK
    [] OTHER -> ERROR_IO_FAILED

\* The value of EWOULDBLOCK on a system where it is not EAGAIN (HP-UX).
EWOULDBLOCK_HPUX == 246

\* error.c: error_get_io_from_system with a case for EAGAIN only.
error_get_io_from_system_eagain_only(err_code, EWOULDBLOCK) == ErrnoSwitch(err_code, {EAGAIN})

\* error.c: error_get_io_from_system on a system whose <errno.h> gives
\* EWOULDBLOCK the value passed: one case when it is EAGAIN, two otherwise.
error_get_io_from_system_build(err_code, EWOULDBLOCK) ==
  IF EWOULDBLOCK = EAGAIN
  THEN ErrnoSwitch(err_code, {EAGAIN})
  ELSE ErrnoSwitch(err_code, {EAGAIN, EWOULDBLOCK})

\* error.c: error_get_io_from_system of the Linux build (EWOULDBLOCK == EAGAIN).
error_get_io_from_system(err_code) == error_get_io_from_system_build(err_code, EAGAIN)

\* error.c: the message pointer of CURRENT_ERROR when no message is stored.
NoMessage == "(null)"

\* error.c: CURRENT_ERROR = {0}
NoError == [code |-> 0, native_code |-> 0, message |-> NoMessage]

\* error.c: error_set_error
error_set_error(code, native_code, message) ==
  [code |-> code, native_code |-> native_code, message |-> message]

\* error.c: error_clear
error_clear == [code |-> 0, native_code |-> 0, message |-> NoMessage]

\* error.c: error_get_last_net, the POSIX branch: errno.
error_get_last_net(m) == m.errno

\* The machine with a new error recorded / a new errno / a new descriptor table.
SetErr(m, code, native_code, message) == [m EXCEPT !.err = error_set_error(code, native_code, message)]
SetErrno(m, e) == [m EXCEPT !.errno = e]

(***************************************************************************)
(* socket.h / socketaddress.h enumerations                                 *)
(***************************************************************************)
SOCKET_FAMILY_UNKNOWN == 0
SOCKET_FAMILY_INET == 2
SOCKET_FAMILY_INET6 == 10
SOCKET_PROTOCOL_UNKNOWN == -1
SOCKET_PROTOCOL_DEFAULT == 0
SOCKET_PROTOCOL_TCP == 6
SOCKET_PROTOCOL_UDP == 17
SOCKET_TYPE_UNKNOWN == 0
SOCKET_TYPE_STREAM == 1
SOCKET_TYPE_DATAGRAM == 2
SOCKET_TYPE_SEQPACKET == 3
SOCKET_IO_CONDITION_POLLIN == 1
SOCKET_IO_CONDITION_POLLOUT == 2
SOCKET_DIRECTION_RCV == 1
SOCKET_DEFAULT_BACKLOG == 5

\* The clock of a call that is not being followed step by step.
NoTimer == [pc |-> "idle", elapsed |-> 0, left |-> 0, signals |-> 0]

\* The NULL pointer, for handles and addresses alike; a Socket pointer is its slot.
NULL == 0

\* The threads of the program that call the library at once, and how many
\* failing calls each of them makes.
Threads == {1, 2}
MaxCalls == 2

\* The threads between calls, no message buffer allocated: a program with one thread.
NoRace ==
  [pc |-> [t \in Threads |-> "idle"], seen |-> [t \in Threads |-> 0], calls |-> [t \in Threads |-> 0],
   made |-> 0, frees |-> [b \in 1..(2 * MaxCalls) |-> 0]]

\* socket.c: struct Socket, as calloc returns it (live says the slot is allocated).
ZeroSocket ==
  [live |-> TRUE, family |-> 0, protocol |-> 0, type |-> 0, fd |-> 0,
   listen_backlog |-> 0, timeout |-> 0, blocking |-> FALSE, keepalive |-> FALSE,
   closed |-> FALSE, connected |-> FALSE, listening |-> FALSE]

\* A slot of the heap holding no Socket (never allocated, or freed).
NoSocket == [ZeroSocket EXCEPT !.live = FALSE, !.fd = -1]

(***************************************************************************)
(* The operating system: one record per descriptor.                        *)
(*   open      the descriptor is allocated                                 *)
(*   family    the address family and the type socket() was called with    *)
(*   conn      "none", "pending" (connect in progress) or "ok"             *)
(*   soerr     the pending socket error SO_ERROR reads and clears          *)
(*   listening listen() succeeded, with backlog as passed                  *)
(*   nonblock  FIONBIO is set                                              *)
(*   peer      the descriptor at the other end of the connection, when it  *)
(*             is in this table (-1 otherwise)                             *)
(*   inq       the bytes received and not yet read                         *)
(*   rdshut, wrshut  the directions shutdown() has closed                  *)
(*   rport     the port of the socket at the other end                     *)
(***************************************************************************)
ClosedFd ==
  [open |-> FALSE, family |-> 0, type |-> 0, conn |-> "none", soerr |-> 0,
   listening |-> FALSE, backlog |-> 0, nonblock |-> FALSE,
   peer |-> -1, inq |-> <<>>, rdshut |-> FALSE, wrshut |-> FALSE, rport |-> 0]

FreshFd == [ClosedFd EXCEPT !.open = TRUE]

IsOpen(F, fd) == fd \in Fds /\ F[fd].open

FreeFds(F) == {fd \in Fds : ~F[fd].open}

\* The descriptor socket() and accept() hand out: the lowest free one.
LowestFree(F) == CHOOSE fd \in FreeFds(F) : \A g \in FreeFds(F) : fd <= g

\* The result of a function of socket.c.  waits and attempts count the readiness
\* waits and the native calls of a retry loop, cond is the condition it waited for,
\* out is the object the returned pointer points to, where its contents matter.
Result(s, m, ret, calls, waited) ==
  [s |-> s, m |-> m, ret |-> ret, calls |-> calls, waited |-> waited, left |-> <<>>, done |-> TRUE,
   waits |-> 0, attempts |-> 0, cond |-> 0, out |-> 0]

(***************************************************************************)
(* util.c: sys_close, the build that is neither HP-UX nor macOS:           *)
(* close(fd).  The oracle c is the outcome: close returns 0, or -1 with    *)
(* errno eno.  On Linux a close that fails on an open descriptor (EINTR)   *)
(* has released the descriptor all the same (rel).                         *)
(***************************************************************************)
CloseOracles(F, fd) ==
  IF IsOpen(F, fd)
  THEN {[res |-> 0, eno |-> 0, rel |-> TRUE]} \cup
       {[res |-> -1, eno |-> EINTR, rel |-> TRUE]}
  ELSE {[res |-> -1, eno |-> EBADF, rel |-> FALSE]}

sys_close(m, fd, c) ==
  [res |-> c.res,
   m |-> [m EXCEPT !.errno = IF c.res = 0 THEN @ ELSE c.eno,
                   !.fdt = IF fd \in Fds /\ c.rel THEN [@ EXCEPT ![fd] = ClosedFd] ELSE @]]

\* socket.c: _XX__socket_check
_XX__socket_check(s, m) ==
  IF s.closed
  THEN [ok |-> FALSE, m |-> SetErr(m, ERROR_IO_NOT_AVAILABLE, 0, "Socket is already closed")]
  ELSE [ok |-> TRUE, m |-> m]


(***************************************************************************)
(* The system calls on a descriptor that change no state of the model:     *)
(* ioctl(FIONBIO), setsockopt, bind, shutdown, getsockname, getpeername.   *)
(* The oracle is 0 or the errno the call fails with; on a descriptor that  *)
(* is not open the only outcome is EBADF.                                  *)
(***************************************************************************)
SysOracles(F, fd, errs) == IF IsOpen(F, fd) THEN {0} \cup errs ELSE {EBADF}

\* The machine after a system call that returned 0 (o = 0) or failed with errno o.
AfterSys(m, o) == IF o = 0 THEN m ELSE SetErrno(m, o)

\* socket.c: _XX__socket_set_fd_blocking, the ioctl(FIONBIO) build; o is ioctl's outcome.
_XX__socket_set_fd_blocking(fd, blocking, m, o) ==
  IF o # 0
  THEN [ok |-> FALSE,
        m |-> SetErr(SetErrno(m, o), error_get_io_from_system(o), o, "Failed to set socket blocking flags")]
  ELSE [ok |-> TRUE, m |-> [m EXCEPT !.fdt[fd].nonblock = ~blocking]]

\* socket.c: socket_set_listen_backlog
socket_set_listen_backlog_missing_guard(p, backlog, H) ==
  IF p = NULL THEN H ELSE [H EXCEPT ![p].listen_backlog = backlog]

socket_set_listen_backlog(p, backlog, H) ==
  IF p = NULL \/ H[p].listening THEN H ELSE [H EXCEPT ![p].listen_backlog = backlog]

\* socket.c: socket_close marking the handle closed but leaving connected and
\* listening as they were.
socket_close_keeps_flags(p, H, m, c) ==
  IF p = NULL
  THEN Result(H, SetErr(m, ERROR_IO_INVALID_ARGUMENT, 0, "Invalid input argument"), FALSE, {}, FALSE)
  ELSE IF H[p].closed
  THEN Result(H, m, TRUE, {}, FALSE)
  ELSE IF c.res = 0
  THEN Result([H EXCEPT ![p].closed = TRUE, ![p].fd = -1], sys_close(m, H[p].fd, c).m, TRUE, {"close"}, FALSE)
  ELSE Result(H, SetErr(sys_close(m, H[p].fd, c).m, error_get_io_from_system(c.eno), c.eno, "Failed to close socket"),
              FALSE, {"close"}, FALSE)

\* socket.c: socket_close; c is the outcome of sys_close.
socket_close(p, H, m, c) ==
  IF p = NULL
  THEN Result(H, SetErr(m, ERROR_IO_INVALID_ARGUMENT, 0, "Invalid input argument"), FALSE, {}, FALSE)
  ELSE IF H[p].closed
  THEN Result(H, m, TRUE, {}, FALSE)
  ELSE LET r == sys_close(m, H[p].fd, c) IN
       IF r.res = 0
       THEN Result([H EXCEPT ![p].connected = FALSE, ![p].closed = TRUE,
                             ![p].listening = FALSE, ![p].fd = -1],
                   r.m, TRUE, {"close"}, FALSE)
       ELSE Result(H,
                   SetErr(r.m, error_get_io_from_system(error_get_last_net(r.m)),
                          error_get_last_net(r.m), "Failed to close socket"),
                   FALSE, {"close"}, FALSE)

\* socket.c: socket_free: socket_close, then free(socket).
socket_free(p, H, m, c) ==
  IF p = NULL
  THEN Result(H, m, "void", {}, FALSE)
  ELSE LET r == socket_close(p, H, m, c) IN
       Result([r.s EXCEPT ![p] = NoSocket], r.m, "void", r.calls, FALSE)

(***************************************************************************)
(* poll() on one descriptor.  The oracle w:                                *)
(*   eintr  how many times poll is interrupted before its last return      *)
(*   evret  the last return: 1 (an event), 0 (the timeout ran out), -1     *)
(*   eno    errno of a failing last return                                 *)
(*   soerr  when the event ends a pending connect: 0 (established) or the  *)
(*          error the connect failed with                                  *)
(* A poll without timeout (timeout < 0) never returns 0.                   *)
(***************************************************************************)
PollOracles(F, fd, condition, timeout) ==
  {w \in [eintr : 0..MaxEINTR, evret : {1, 0, -1}, eno : {0, ENOMEM}, soerr : {0, ECONNREFUSED}] :
     /\ (w.evret = 0) => (timeout >= 0)
     /\ (w.eno # 0) <=> (w.evret = -1)
     /\ (w.soerr # 0) => /\ w.evret = 1
                         /\ condition = SOCKET_IO_CONDITION_POLLOUT
                         /\ IsOpen(F, fd) /\ F[fd].conn = "pending"}

\* The last return of poll(): errno, and the end of a pending connect.
sys_poll(m, fd, condition, w) ==
  LET m1 == IF w.evret = -1 THEN SetErrno(m, w.eno) ELSE m IN
  IF /\ w.evret = 1 /\ condition = SOCKET_IO_CONDITION_POLLOUT
     /\ IsOpen(m.fdt, fd) /\ m.fdt[fd].conn = "pending"
  THEN [m1 EXCEPT !.fdt[fd].conn = IF w.soerr = 0 THEN "ok" ELSE "none",
                  !.fdt[fd].soerr = w.soerr]
  ELSE m1

\* socket.c: socket_io_condition_wait, the loop of the poll build: k more
\* interrupted polls (each leaves errno = EINTR and goes round), then the last.
RECURSIVE poll_loop(_, _, _, _, _)

\* The loop without the restart: an interrupted poll ends the wait with the
\* error EINTR classifies to.
poll_loop_surfaces_eintr(fd, condition, m, k, w) ==
  IF k > 0
  THEN [ok |-> FALSE,
        m |-> SetErr(SetErrno(m, EINTR), error_get_io_from_system(EINTR), EINTR,
                     "Failed to call poll() on socket")]
  ELSE LET m1 == sys_poll(m, fd, condition, w) IN
       IF w.evret = 1
       THEN [ok |-> TRUE, m |-> m1]
       ELSE IF w.evret = 0
       THEN [ok |-> FALSE,
             m |-> SetErr(m1, ERROR_IO_TIMED_OUT, error_get_last_net(m1),
                          "Timed out while waiting socket condition")]
       ELSE [ok |-> FALSE,
             m |-> SetErr(m1, error_get_io_from_system(error_get_last_net(m1)),
                          error_get_last_net(m1), "Failed to call poll() on socket")]

poll_loop(fd, condition, m, k, w) ==
  IF k > 0
  THEN poll_loop(fd, condition, SetErrno(m, EINTR), k - 1, w)
  ELSE LET m1 == sys_poll(m, fd, condition, w) IN
       IF w.evret = 1
       THEN [ok |-> TRUE, m |-> m1]
       ELSE IF w.evret = 0
       THEN [ok |-> FALSE,
             m |-> SetErr(m1, ERROR_IO_TIMED_OUT, error_get_last_net(m1),
                          "Timed out while waiting socket condition")]
       ELSE [ok |-> FALSE,
             m |-> SetErr(m1, error_get_io_from_system(error_get_last_net(m1)),
                          error_get_last_net(m1), "Failed to call poll() on socket")]

\* socket.c: the timeout of the handle handed to poll() as it is.
PollTimeout_as_stored(s) == s.timeout

\* socket.c: the timeout socket_io_condition_wait hands to poll().
PollTimeout(s) == IF s.timeout > 0 THEN s.timeout ELSE -1

\* socket.c: socket_io_condition_wait (SOCKET_USE_POLL)
socket_io_condition_wait(p, condition, H, m, w) ==
  IF p = NULL
  THEN Result(H, SetErr(m, ERROR_IO_INVALID_ARGUMENT, 0, "Invalid input argument"), FALSE, {}, FALSE)
  ELSE LET chk == _XX__socket_check(H[p], m) IN
       IF ~chk.ok
       THEN Result(H, chk.m, FALSE, {}, FALSE)
       ELSE LET r == poll_loop(H[p].fd, condition, m, w.eintr, w) IN
            Result(H, r.m, r.ok, {"poll"}, TRUE)


\* calloc(sizeof(Socket), 1): the slot it returns, NULL when the heap is full.
FreeSlots(H) == {p \in Handles : ~H[p].live}
calloc(H) == IF FreeSlots(H) = {} THEN NULL ELSE CHOOSE p \in FreeSlots(H) : \A q \in FreeSlots(H) : p <= q

(***************************************************************************)
(* socket(family, type, protocol).  The oracle is 0 or the errno it fails  *)
(* with: a full descriptor table is EMFILE, a protocol that does not fit   *)
(* the type is EPROTONOSUPPORT.                                            *)
(***************************************************************************)
ProtocolFits(type, protocol) ==
  \/ protocol = SOCKET_PROTOCOL_DEFAULT
  \/ type = SOCKET_TYPE_STREAM /\ protocol = SOCKET_PROTOCOL_TCP
  \/ type = SOCKET_TYPE_DATAGRAM /\ protocol = SOCKET_PROTOCOL_UDP

SocketOracles(F, type, protocol) ==
  IF ~ProtocolFits(type, protocol) THEN {EPROTONOSUPPORT}
  ELSE IF FreeFds(F) = {} THEN {EMFILE}
  ELSE {0, EMFILE}

sys_socket(m, family, type, o) ==
  IF o # 0
  THEN [res |-> -1, m |-> SetErrno(m, o)]
  ELSE LET fd == LowestFree(m.fdt) IN
       [res |-> fd, m |-> [m EXCEPT !.fdt[fd] = [FreshFd EXCEPT !.family = family, !.type = type]]]

\* The oracle of socket_new: socket(), ioctl(FIONBIO), and the close() of the failure path.
NewOracles(F, type, protocol) ==
  {o \in [sk : SocketOracles(F, type, protocol), nb : {0, EINVAL}, c : [res : {0, -1}, eno : {0, EINTR}, rel : BOOLEAN]] :
     /\ (o.sk # 0) => (o.nb = 0)
     /\ IF o.sk = 0 /\ o.nb # 0 THEN o.c \in CloseOracles([F EXCEPT ![LowestFree(F)] = FreshFd], LowestFree(F))
                                ELSE o.c = [res |-> 0, eno |-> 0, rel |-> TRUE]}

\* socket.c: socket_new leaving out the defaults it sets once the descriptor is
\* made (timeout, blocking, listen backlog): the handle keeps calloc's zeroes.
socket_new_no_defaults(family, type, protocol, H, m, o) ==
  IF family = SOCKET_FAMILY_UNKNOWN \/ type = SOCKET_TYPE_UNKNOWN \/ protocol = SOCKET_PROTOCOL_UNKNOWN
  THEN Result(H, SetErr(m, ERROR_IO_INVALID_ARGUMENT, 0, "Invalid input socket family, type or protocol"),
              NULL, {}, FALSE)
  ELSE IF calloc(H) = NULL
  THEN Result(H, SetErr(m, ERROR_IO_NO_RESOURCES, 0, "Failed to allocate memory for socket"), NULL, {}, FALSE)
  ELSE LET p == calloc(H)
           sk == sys_socket(m, family, type, o.sk)
       IN
  IF sk.res < 0
  THEN Result(H, SetErr(sk.m, error_get_io_from_system(error_get_last_net(sk.m)), error_get_last_net(sk.m),
                        "Failed to call socket() to create socket"),
              NULL, {"socket"}, FALSE)
  ELSE IF o.nb # 0
  THEN Result(H, sys_close(SetErr(SetErrno(sk.m, o.nb), error_get_io_from_system(o.nb), o.nb,
                                  "Failed to set socket blocking flags"), sk.res, o.c).m,
              NULL, {"socket", "ioctl", "close"}, FALSE)
  ELSE Result([H EXCEPT ![p] = [ZeroSocket EXCEPT !.fd = sk.res, !.family = family,
                                                  !.protocol = protocol, !.type = type]],
              [sk.m EXCEPT !.fdt[sk.res].nonblock = TRUE], p, {"socket", "ioctl"}, FALSE)

\* socket.c: socket_new (Linux build: SOCK_CLOEXEC is set by socket() itself, so
\* the fcntl(F_SETFD) is not reached; SO_NOSIGPIPE does not exist).
socket_new(family, type, protocol, H, m, o) ==
  IF family = SOCKET_FAMILY_UNKNOWN \/ type = SOCKET_TYPE_UNKNOWN \/ protocol = SOCKET_PROTOCOL_UNKNOWN
  THEN Result(H, SetErr(m, ERROR_IO_INVALID_ARGUMENT, 0, "Invalid input socket family, type or protocol"),
              NULL, {}, FALSE)
  ELSE IF type \notin {SOCKET_TYPE_STREAM, SOCKET_TYPE_DATAGRAM, SOCKET_TYPE_SEQPACKET}
  THEN Result(H, SetErr(m, ERROR_IO_INVALID_ARGUMENT, 0, "Unable to create socket with unknown family"),
              NULL, {}, FALSE)
  ELSE LET p == calloc(H) IN
  IF p = NULL
  THEN Result(H, SetErr(m, ERROR_IO_NO_RESOURCES, 0, "Failed to allocate memory for socket"), NULL, {}, FALSE)
  ELSE LET sk == sys_socket(m, family, type, o.sk) IN
  IF sk.res < 0
  THEN Result(H, SetErr(sk.m, error_get_io_from_system(error_get_last_net(sk.m)), error_get_last_net(sk.m),
                        "Failed to call socket() to create socket"),
              NULL, {"socket"}, FALSE)
  ELSE LET H1 == [H EXCEPT ![p] = [ZeroSocket EXCEPT !.fd = sk.res]]
           nb == _XX__socket_set_fd_blocking(sk.res, FALSE, sk.m, o.nb)
       IN
  IF ~nb.ok
  THEN LET f == socket_free(p, H1, nb.m, o.c) IN
       Result(f.s, f.m, NULL, {"socket", "ioctl"} \cup f.calls, FALSE)
  ELSE LET H2 == [H1 EXCEPT ![p].timeout = 0, ![p].blocking = TRUE, ![p].family = family,
                            ![p].protocol = protocol, ![p].type = type]
       IN Result(socket_set_listen_backlog(p, SOCKET_DEFAULT_BACKLOG, H2), nb.m, p, {"socket", "ioctl"}, FALSE)

\* socket.c: socket_check_connect_result.  getsockopt(SO_ERROR) fails with EBADF
\* on a descriptor that is not open; otherwise it reads and clears the pending error.
socket_check_connect_result_no_connected(p, H, m) ==
  IF p = NULL
  THEN Result(H, SetErr(m, ERROR_IO_INVALID_ARGUMENT, 0, "Invalid input argument"), FALSE, {}, FALSE)
  ELSE IF ~IsOpen(m.fdt, H[p].fd)
  THEN Result(H, SetErr(SetErrno(m, EBADF), error_get_io_from_system(EBADF), EBADF,
                        "Failed to call getsockopt() to get connection status"),
              FALSE, {"getsockopt"}, FALSE)
  ELSE IF m.fdt[H[p].fd].soerr # 0
  THEN Result(H, SetErr([m EXCEPT !.fdt[H[p].fd].soerr = 0], error_get_io_from_system(m.fdt[H[p].fd].soerr),
                        m.fdt[H[p].fd].soerr, "Error in socket layer"),
              FALSE, {"getsockopt"}, FALSE)
  ELSE Result(H, m, TRUE, {"getsockopt"}, FALSE)

socket_check_connect_result(p, H, m) ==
  IF p = NULL
  THEN Result(H, SetErr(m, ERROR_IO_INVALID_ARGUMENT, 0, "Invalid input argument"), FALSE, {}, FALSE)
  ELSE IF ~IsOpen(m.fdt, H[p].fd)
  THEN LET m1 == SetErrno(m, EBADF) IN
       Result(H, SetErr(m1, error_get_io_from_system(error_get_last_net(m1)), error_get_last_net(m1),
                        "Failed to call getsockopt() to get connection status"),
              FALSE, {"getsockopt"}, FALSE)
  ELSE LET val == m.fdt[H[p].fd].soerr
           m1 == [m EXCEPT !.fdt[H[p].fd].soerr = 0]
           m2 == IF val # 0 THEN SetErr(m1, error_get_io_from_system(val), val, "Error in socket layer") ELSE m1
       IN Result([H EXCEPT ![p].connected = (val = 0)], m2, val = 0, {"getsockopt"}, FALSE)

\* socket.c: socket_set_keepalive; o is the outcome of setsockopt(SO_KEEPALIVE).
socket_set_keepalive(p, keepalive, H, m, o) ==
  IF p = NULL
  THEN Result(H, m, "void", {}, FALSE)
  ELSE IF H[p].keepalive = keepalive
  THEN Result(H, m, "void", {}, FALSE)
  ELSE IF o # 0
  THEN Result(H, SetErrno(m, o), "void", {"setsockopt"}, FALSE)
  ELSE Result([H EXCEPT ![p].keepalive = keepalive], m, "void", {"setsockopt"}, FALSE)

\* socket.c: socket_set_blocking
\* socket.c: socket_set_blocking handing the mode to the descriptor as well.
socket_set_blocking_delegates(p, blocking, H, m) ==
  IF p = NULL
  THEN Result(H, m, "void", {}, FALSE)
  ELSE Result([H EXCEPT ![p].blocking = blocking],
              IF IsOpen(m.fdt, H[p].fd) THEN [m EXCEPT !.fdt[H[p].fd].nonblock = ~blocking] ELSE m,
              "void", {"ioctl"}, FALSE)

socket_set_blocking(p, blocking, H, m) ==
  IF p = NULL
  THEN Result(H, m, "void", {}, FALSE)
  ELSE Result([H EXCEPT ![p].blocking = blocking], m, "void", {}, FALSE)

\* socket.c: socket_set_timeout storing its argument as it is.
socket_set_timeout_no_clamp(p, timeout, H, m) ==
  IF p = NULL
  THEN Result(H, m, "void", {}, FALSE)
  ELSE Result([H EXCEPT ![p].timeout = timeout], m, "void", {}, FALSE)

\* socket.c: socket_set_timeout
socket_set_timeout(p, timeout, H, m) ==
  IF p = NULL
  THEN Result(H, m, "void", {}, FALSE)
  ELSE Result([H EXCEPT ![p].timeout = IF timeout < 0 THEN 0 ELSE timeout], m, "void", {}, FALSE)

\* socketaddress.c: socket_address_to_native into a sockaddr_storage: every
\* constructed address (family IPv4 or IPv6) fits.
socket_address_to_native(address) == address # NULL

\* The port of the address objects callers pass.
SomePort == 80

\* socket.c: socket_bind; o.ra, o.rp and o.b are the outcomes of
\* setsockopt(SO_REUSEADDR), setsockopt(SO_REUSEPORT) and bind().
socket_bind(p, address, allow_reuse, H, m, o) ==
  IF p = NULL \/ address = NULL
  THEN Result(H, SetErr(m, ERROR_IO_INVALID_ARGUMENT, 0, "Invalid input argument"), FALSE, {}, FALSE)
  ELSE LET chk == _XX__socket_check(H[p], m) IN
  IF ~chk.ok
  THEN Result(H, chk.m, FALSE, {}, FALSE)
  ELSE LET m1 == AfterSys(AfterSys(m, o.ra), o.rp) IN
  IF ~socket_address_to_native(address)
  THEN Result(H, SetErr(m1, ERROR_IO_FAILED, 0, "Failed to convert socket address to native structure"),
              FALSE, {"setsockopt"}, FALSE)
  ELSE IF o.b # 0
  THEN LET m2 == SetErrno(m1, o.b) IN
       Result(H, SetErr(m2, error_get_io_from_system(error_get_last_net(m2)), error_get_last_net(m2),
                        "Failed to call bind() on socket"),
              FALSE, {"setsockopt", "bind"}, FALSE)
  ELSE Result(H, m1, TRUE, {"setsockopt", "bind"}, FALSE)

\* socket.c: socket_listen; o is the outcome of listen(fd, listen_backlog).
socket_listen(p, H, m, o) ==
  IF p = NULL
  THEN Result(H, SetErr(m, ERROR_IO_INVALID_ARGUMENT, 0, "Invalid input argument"), FALSE, {}, FALSE)
  ELSE LET chk == _XX__socket_check(H[p], m) IN
  IF ~chk.ok
  THEN Result(H, chk.m, FALSE, {}, FALSE)
  ELSE IF o # 0
  THEN LET m1 == SetErrno(m, o) IN
       Result(H, SetErr(m1, error_get_io_from_system(error_get_last_net(m1)), error_get_last_net(m1),
                        "Failed to call listen() on socket"),
              FALSE, {"listen"}, FALSE)
  ELSE Result([H EXCEPT ![p].listening = TRUE],
              [m EXCEPT !.fdt[H[p].fd].listening = TRUE, !.fdt[H[p].fd].backlog = H[p].listen_backlog],
              TRUE, {"listen"}, FALSE)

(***************************************************************************)
(* connect().  The oracle cn is the outcome of the call that is not        *)
(* interrupted: 0, or the errno it fails with.  An interrupted connect     *)
(* (EINTR) leaves the connection being established, so the call after it   *)
(* finds it in progress (EALREADY).                                        *)
(***************************************************************************)
ConnectOracles(F, fd) ==
  IF ~IsOpen(F, fd) THEN {[eintr |-> 0, cn |-> EBADF]}
  ELSE IF F[fd].conn = "ok" THEN {[eintr |-> 0, cn |-> EISCONN]}
  ELSE IF F[fd].conn = "pending" THEN {[eintr |-> 0, cn |-> EALREADY]}
  ELSE {[eintr |-> 0, cn |-> e] : e \in {0, EINPROGRESS, EAGAIN, ECONNREFUSED}} \cup
       {[eintr |-> k, cn |-> EALREADY] : k \in 1..MaxEINTR}

sys_connect(m, fd, cn) ==
  IF cn = 0 THEN [m EXCEPT !.fdt[fd].conn = "ok", !.fdt[fd].rport = SomePort]
  ELSE IF cn = EINPROGRESS THEN [m EXCEPT !.errno = cn, !.fdt[fd].conn = "pending", !.fdt[fd].rport = SomePort]
  ELSE SetErrno(m, cn)

\* socket.c: socket_connect, the loop round connect(): k interrupted calls, each
\* followed by another call, then the call that returns cn.
RECURSIVE connect_loop(_, _, _, _)
connect_loop(fd, m, k, cn) ==
  IF k > 0
  THEN connect_loop(fd, [m EXCEPT !.errno = EINTR, !.fdt[fd].conn = "pending"], k - 1, cn)
  ELSE [conn_result |-> IF cn = 0 THEN 0 ELSE -1, err_code |-> cn, m |-> sys_connect(m, fd, cn)]

\* socket.c: socket_connect, after the loop, with the test of socket->blocking
\* left out: a non-blocking handle waits too.
socket_connect_finish_always_waits(p, H, c, o) ==
  IF c.conn_result = 0
  THEN Result([H EXCEPT ![p].connected = TRUE], c.m, TRUE, {"connect"}, FALSE)
  ELSE IF error_get_io_from_system(c.err_code) \in {ERROR_IO_WOULD_BLOCK, ERROR_IO_IN_PROGRESS}
  THEN LET w == socket_io_condition_wait(p, SOCKET_IO_CONDITION_POLLOUT, H, c.m, o.w) IN
       IF ~w.ret
       THEN Result(H, w.m, FALSE, {"connect", "poll"}, TRUE)
       ELSE LET r == socket_check_connect_result(p, H, w.m) IN
            Result(r.s, r.m, r.ret, {"connect", "poll", "getsockopt"}, TRUE)
  ELSE Result(H, SetErr(c.m, error_get_io_from_system(c.err_code), c.err_code, "Failed to call connect() on socket"),
              FALSE, {"connect"}, FALSE)

\* socket.c: socket_connect, after the loop round connect() (c is how it ended).
socket_connect_finish(p, H, c, o) ==
  IF c.conn_result = 0
  THEN Result([H EXCEPT ![p].connected = TRUE], c.m, TRUE, {"connect"}, FALSE)
  ELSE LET sock_err == error_get_io_from_system(c.err_code) IN
  IF sock_err = ERROR_IO_WOULD_BLOCK \/ sock_err = ERROR_IO_IN_PROGRESS
  THEN IF H[p].blocking
       THEN LET w == socket_io_condition_wait(p, SOCKET_IO_CONDITION_POLLOUT, H, c.m, o.w) IN
            IF ~w.ret
            THEN Result(H, w.m, FALSE, {"connect", "poll"}, TRUE)
            ELSE LET r == socket_check_connect_result(p, H, w.m) IN
                 IF r.ret
                 THEN Result([r.s EXCEPT ![p].connected = TRUE], r.m, TRUE,
                             {"connect", "poll", "getsockopt"}, TRUE)
                 ELSE Result(r.s, r.m, FALSE, {"connect", "poll", "getsockopt"}, TRUE)
       ELSE Result(H, SetErr(c.m, sock_err, c.err_code, "Couldn't block non-blocking socket"),
                   FALSE, {"connect"}, FALSE)
  ELSE Result(H, SetErr(c.m, sock_err, c.err_code, "Failed to call connect() on socket"),
              FALSE, {"connect"}, FALSE)

\* socket.c: socket_connect without the loop: an interrupted connect() is
\* classified and reported like any other failure.
socket_connect_reports_eintr(p, address, H, m, o) ==
  IF p = NULL \/ address = NULL
  THEN Result(H, SetErr(m, ERROR_IO_INVALID_ARGUMENT, 0, "Invalid input argument"), FALSE, {}, FALSE)
  ELSE IF H[p].closed
  THEN Result(H, _XX__socket_check(H[p], m).m, FALSE, {}, FALSE)
  ELSE IF o.eintr > 0
  THEN socket_connect_finish(p, H, [conn_result |-> -1, err_code |-> EINTR,
                                    m |-> [m EXCEPT !.errno = EINTR, !.fdt[H[p].fd].conn = "pending"]], o)
  ELSE socket_connect_finish(p, H, connect_loop(H[p].fd, m, 0, o.cn), o)

\* socket.c: socket_connect
socket_connect(p, address, H, m, o) ==
  IF p = NULL \/ address = NULL
  THEN Result(H, SetErr(m, ERROR_IO_INVALID_ARGUMENT, 0, "Invalid input argument"), FALSE, {}, FALSE)
  ELSE IF H[p].closed
  THEN Result(H, _XX__socket_check(H[p], m).m, FALSE, {}, FALSE)
  ELSE IF ~socket_address_to_native(address)
  THEN Result(H, SetErr(m, ERROR_IO_FAILED, 0, "Failed to convert socket address to native structure"),
              FALSE, {}, FALSE)
  ELSE socket_connect_finish(p, H, connect_loop(H[p].fd, m, o.eintr, o.cn), o)

(***************************************************************************)
(* The retry loop shared by socket_accept, socket_receive,                 *)
(* socket_receive_from, socket_send and socket_send_to:                    *)
(*   for (;;) { if (blocking && !wait) return; if (call() < 0) { EINTR:    *)
(*   continue; blocking && would-block: continue; report, return; } break }*)
(* script is the sequence of attempts the system answers with, one per     *)
(* round: [w, res, eno], the oracle of the wait, the value the call        *)
(* returns and the errno of a failing call.  The result's left is what     *)
(* remains of the script, and done is FALSE when the script ran out with   *)
(* the loop still going round.                                             *)
(***************************************************************************)
RECURSIVE io_loop(_, _, _, _, _, _, _)

\* The retry loop going round only after EINTR: a blocking handle reports a
\* native call that would block.
io_loop_reports_would_block(p, condition, call, message, H, m, script) ==
  IF script = <<>>
  THEN [Result(H, m, -1, {}, FALSE) EXCEPT !.done = FALSE]
  ELSE LET a == Head(script)
           w == IF H[p].blocking
                THEN socket_io_condition_wait(p, condition, H, m, a.w)
                ELSE Result(H, m, TRUE, {}, FALSE)
           nw == IF w.waited THEN 1 ELSE 0
       IN
  IF ~w.ret
  THEN [Result(H, w.m, -1, w.calls, TRUE) EXCEPT !.left = Tail(script), !.cond = IF w.waited THEN condition ELSE @, !.waits = 1]
  ELSE IF a.res < 0 /\ a.eno = EINTR
  THEN [io_loop(p, condition, call, message, H, SetErrno(w.m, a.eno), Tail(script))
          EXCEPT !.calls = @ \cup w.calls \cup {call}, !.waited = @ \/ w.waited,
                 !.cond = IF w.waited THEN condition ELSE @, !.waits = @ + nw, !.attempts = @ + 1]
  ELSE IF a.res < 0
  THEN [Result(H, SetErr(SetErrno(w.m, a.eno), error_get_io_from_system(a.eno), a.eno, message), -1,
               w.calls \cup {call}, w.waited)
          EXCEPT !.left = Tail(script), !.cond = IF w.waited THEN condition ELSE @, !.waits = nw, !.attempts = 1]
  ELSE [Result(H, w.m, a.res, w.calls \cup {call}, w.waited)
          EXCEPT !.left = Tail(script), !.cond = IF w.waited THEN condition ELSE @, !.waits = nw, !.attempts = 1]

\* The retry loop waiting for readiness whatever the blocking flag says.
io_loop_always_waits(p, condition, call, message, H, m, script) ==
  IF script = <<>>
  THEN [Result(H, m, -1, {}, FALSE) EXCEPT !.done = FALSE]
  ELSE LET a == Head(script)
           w == socket_io_condition_wait(p, condition, H, m, a.w)
           nw == IF w.waited THEN 1 ELSE 0
       IN
  IF ~w.ret
  THEN [Result(H, w.m, -1, w.calls, TRUE) EXCEPT !.left = Tail(script), !.cond = IF w.waited THEN condition ELSE @, !.waits = 1]
  ELSE IF a.res < 0 /\ (a.eno = EINTR \/ (H[p].blocking /\ a.eno = EAGAIN))
  THEN [io_loop(p, condition, call, message, H, SetErrno(w.m, a.eno), Tail(script))
          EXCEPT !.calls = @ \cup w.calls \cup {call}, !.waited = @ \/ w.waited,
                 !.cond = IF w.waited THEN condition ELSE @, !.waits = @ + nw, !.attempts = @ + 1]
  ELSE IF a.res < 0
  THEN [Result(H, SetErr(SetErrno(w.m, a.eno), error_get_io_from_system(a.eno), a.eno, message), -1,
               w.calls \cup {call}, w.waited)
          EXCEPT !.left = Tail(script), !.cond = IF w.waited THEN condition ELSE @, !.waits = nw, !.attempts = 1]
  ELSE [Result(H, w.m, a.res, w.calls \cup {call}, w.waited)
          EXCEPT !.left = Tail(script), !.cond = IF w.waited THEN condition ELSE @, !.waits = nw, !.attempts = 1]

io_loop(p, condition, call, message, H, m, script) ==
  IF script = <<>>
  THEN [Result(H, m, -1, {}, FALSE) EXCEPT !.done = FALSE]
  ELSE LET a == Head(script)
           w == IF H[p].blocking
                THEN socket_io_condition_wait(p, condition, H, m, a.w)
                ELSE Result(H, m, TRUE, {}, FALSE)
       IN
  IF ~w.ret
  THEN [Result(H, w.m, -1, w.calls, TRUE) EXCEPT !.left = Tail(script), !.cond = IF w.waited THEN condition ELSE @, !.waits = 1]
  ELSE IF a.res < 0
  THEN LET m1 == SetErrno(w.m, a.eno)
           err_code == error_get_last_net(m1)
           sock_err == error_get_io_from_system(err_code)
           again == io_loop(p, condition, call, message, H, m1, Tail(script))
       IN IF err_code = EINTR \/ (H[p].blocking /\ sock_err = ERROR_IO_WOULD_BLOCK)
          THEN [again EXCEPT !.calls = @ \cup w.calls \cup {call}, !.waited = @ \/ w.waited,
                             !.cond = IF w.waited THEN condition ELSE @, !.waits = @ + (IF w.waited THEN 1 ELSE 0), !.attempts = @ + 1]
          ELSE [Result(H, SetErr(m1, sock_err, err_code, message), -1, w.calls \cup {call}, w.waited)
                  EXCEPT !.left = Tail(script), !.cond = IF w.waited THEN condition ELSE @, !.waits = IF w.waited THEN 1 ELSE 0, !.attempts = 1]
  ELSE [Result(H, w.m, a.res, w.calls \cup {call}, w.waited)
          EXCEPT !.left = Tail(script), !.cond = IF w.waited THEN condition ELSE @, !.waits = IF w.waited THEN 1 ELSE 0, !.attempts = 1]

\* socket.c: socket_receive
socket_receive(p, buffer, buflen, H, m, script) ==
  IF p = NULL \/ buffer = NULL
  THEN Result(H, SetErr(m, ERROR_IO_INVALID_ARGUMENT, 0, "Invalid input argument"), -1, {}, FALSE)
  ELSE LET chk == _XX__socket_check(H[p], m) IN
  IF ~chk.ok
  THEN Result(H, chk.m, -1, {}, FALSE)
  ELSE io_loop(p, SOCKET_IO_CONDITION_POLLIN, "recv", "Failed to call recv() on socket", H, m, script)

\* socket.c: socket_receive_from (the address it hands back is not modelled)
socket_receive_from(p, buffer, buflen, H, m, script) ==
  IF p = NULL \/ buffer = NULL \/ buflen = 0
  THEN Result(H, SetErr(m, ERROR_IO_INVALID_ARGUMENT, 0, "Invalid input argument"), -1, {}, FALSE)
  ELSE LET chk == _XX__socket_check(H[p], m) IN
  IF ~chk.ok
  THEN Result(H, chk.m, -1, {}, FALSE)
  ELSE io_loop(p, SOCKET_IO_CONDITION_POLLIN, "recvfrom", "Failed to call recvfrom() on socket", H, m, script)

\* socket.c: socket_send reporting the whole buffer as sent when send() took a part of it.
socket_send_reports_buflen(p, buffer, buflen, H, m, script) ==
  IF p = NULL \/ buffer = NULL \/ buflen = 0
  THEN Result(H, SetErr(m, ERROR_IO_INVALID_ARGUMENT, 0, "Invalid input argument"), -1, {}, FALSE)
  ELSE IF H[p].closed
  THEN Result(H, _XX__socket_check(H[p], m).m, -1, {}, FALSE)
  ELSE [io_loop(p, SOCKET_IO_CONDITION_POLLOUT, "send", "Failed to call send() on socket", H, m, script)
          EXCEPT !.ret = IF @ > 0 THEN buflen ELSE @]

\* socket.c: socket_send
socket_send(p, buffer, buflen, H, m, script) ==
  IF p = NULL \/ buffer = NULL \/ buflen = 0
  THEN Result(H, SetErr(m, ERROR_IO_INVALID_ARGUMENT, 0, "Invalid input argument"), -1, {}, FALSE)
  ELSE LET chk == _XX__socket_check(H[p], m) IN
  IF ~chk.ok
  THEN Result(H, chk.m, -1, {}, FALSE)
  ELSE io_loop(p, SOCKET_IO_CONDITION_POLLOUT, "send", "Failed to call send() on socket", H, m, script)

\* socket.c: socket_send_to
socket_send_to(p, address, buffer, buflen, H, m, script) ==
  IF p = NULL \/ address = NULL \/ buffer = NULL
  THEN Result(H, SetErr(m, ERROR_IO_INVALID_ARGUMENT, 0, "Invalid input argument"), -1, {}, FALSE)
  ELSE LET chk == _XX__socket_check(H[p], m) IN
  IF ~chk.ok
  THEN Result(H, chk.m, -1, {}, FALSE)
  ELSE IF ~socket_address_to_native(address)
  THEN Result(H, SetErr(m, ERROR_IO_FAILED, 0, "Failed to convert socket address to native structure"),
              -1, {}, FALSE)
  ELSE io_loop(p, SOCKET_IO_CONDITION_POLLOUT, "sendto", "Failed to call sendto() on socket", H, m, script)

\* shutdown(fd, how) returning 0: SHUT_RD, SHUT_WR or SHUT_RDWR closes the directions.
sys_shutdown(m, fd, shutdown_read, shutdown_write) ==
  [m EXCEPT !.fdt[fd].rdshut = @ \/ shutdown_read, !.fdt[fd].wrshut = @ \/ shutdown_write]

\* socket.c: socket_shutdown; o is the outcome of shutdown(fd, how).
\* socket.c: socket_shutdown clearing connected after every successful shutdown().
socket_shutdown_clears_connected(p, shutdown_read, shutdown_write, H, m, o) ==
  IF p = NULL
  THEN Result(H, SetErr(m, ERROR_IO_INVALID_ARGUMENT, 0, "Invalid input argument"), FALSE, {}, FALSE)
  ELSE LET chk == _XX__socket_check(H[p], m) IN
  IF ~chk.ok
  THEN Result(H, chk.m, FALSE, {}, FALSE)
  ELSE IF ~shutdown_read /\ ~shutdown_write
  THEN Result(H, m, TRUE, {}, FALSE)
  ELSE IF o # 0
  THEN LET m1 == SetErrno(m, o) IN
       Result(H, SetErr(m1, error_get_io_from_system(error_get_last_net(m1)), error_get_last_net(m1),
                        "Failed to call shutdown() on socket"),
              FALSE, {"shutdown"}, FALSE)
  ELSE Result([H EXCEPT ![p].connected = FALSE],
              sys_shutdown(m, H[p].fd, shutdown_read, shutdown_write), TRUE, {"shutdown"}, FALSE)

socket_shutdown(p, shutdown_read, shutdown_write, H, m, o) ==
  IF p = NULL
  THEN Result(H, SetErr(m, ERROR_IO_INVALID_ARGUMENT, 0, "Invalid input argument"), FALSE, {}, FALSE)
  ELSE LET chk == _XX__socket_check(H[p], m) IN
  IF ~chk.ok
  THEN Result(H, chk.m, FALSE, {}, FALSE)
  ELSE IF ~shutdown_read /\ ~shutdown_write
  THEN Result(H, m, TRUE, {}, FALSE)
  ELSE IF o # 0
  THEN LET m1 == SetErrno(m, o) IN
       Result(H, SetErr(m1, error_get_io_from_system(error_get_last_net(m1)), error_get_last_net(m1),
                        "Failed to call shutdown() on socket"),
              FALSE, {"shutdown"}, FALSE)
  ELSE Result(IF shutdown_read /\ shutdown_write THEN [H EXCEPT ![p].connected = FALSE] ELSE H,
              sys_shutdown(m, H[p].fd, shutdown_read, shutdown_write), TRUE, {"shutdown"}, FALSE)

\* socket.c: socket_set_buffer_size; o is the outcome of setsockopt(SO_RCVBUF / SO_SNDBUF).
socket_set_buffer_size(p, dir, size, H, m, o) ==
  IF p = NULL
  THEN Result(H, SetErr(m, ERROR_IO_INVALID_ARGUMENT, 0, "Invalid input argument"), FALSE, {}, FALSE)
  ELSE LET chk == _XX__socket_check(H[p], m) IN
  IF ~chk.ok
  THEN Result(H, chk.m, FALSE, {}, FALSE)
  ELSE IF o # 0
  THEN LET m1 == SetErrno(m, o) IN
       Result(H, SetErr(m1, error_get_io_from_system(error_get_last_net(m1)), error_get_last_net(m1),
                        "Failed to call setsockopt() on socket to set buffer size"),
              FALSE, {"setsockopt"}, FALSE)
  ELSE Result(H, m, TRUE, {"setsockopt"}, FALSE)

\* The address object a caller passes (only that it is not NULL), and the
\* pointer to an address object a function returns.
SomeAddress == 1

\* htons and ntohs on a little-endian host: the two bytes of a 16-bit value swapped.
htons(x) == (x % 256) * 256 + ((x \div 256) % 256)

ntohs(x) == (x % 256) * 256 + ((x \div 256) % 256)

\* getpeername(): the sockaddr of the peer, its port in network byte order.
sys_getpeername(F, fd) == [sa_family |-> F[fd].family, sin_port |-> htons(F[fd].rport)]

\* socketaddress.c: socket_address_new_from_native with sin_port taken as it is,
\* in network byte order.
socket_address_new_from_native_no_ntohs(native) ==
  [family |-> native.sa_family, port |-> native.sin_port]

\* socketaddress.c: socket_address_new_from_native, for a sockaddr of family
\* AF_INET or AF_INET6 (the families of the open descriptors).
socket_address_new_from_native(native) ==
  [family |-> native.sa_family, port |-> ntohs(native.sin_port)]

\* socket.c: socket_get_local_address.  getsockname fails with EBADF on a
\* descriptor that is not open; the family of an open one is IPv4 or IPv6, so
\* socket_address_new_from_native returns an address.
socket_get_local_address(p, H, m) ==
  IF p = NULL
  THEN Result(H, SetErr(m, ERROR_IO_INVALID_ARGUMENT, 0, "Invalid input argument"), NULL, {}, FALSE)
  ELSE IF ~IsOpen(m.fdt, H[p].fd)
  THEN LET m1 == SetErrno(m, EBADF) IN
       Result(H, SetErr(m1, error_get_io_from_system(error_get_last_net(m1)), error_get_last_net(m1),
                        "Failed to call getsockname() to get local socket address"),
              NULL, {"getsockname"}, FALSE)
  ELSE Result(H, m, SomeAddress, {"getsockname"}, FALSE)

\* socket.c: socket_get_remote_address.  getpeername fails with EBADF on a
\* descriptor that is not open and with ENOTCONN on one that has no peer.
socket_get_remote_address(p, H, m) ==
  IF p = NULL
  THEN Result(H, SetErr(m, ERROR_IO_INVALID_ARGUMENT, 0, "Invalid input argument"), NULL, {}, FALSE)
  ELSE IF ~IsOpen(m.fdt, H[p].fd) \/ m.fdt[H[p].fd].conn # "ok"
  THEN LET m1 == SetErrno(m, IF IsOpen(m.fdt, H[p].fd) THEN ENOTCONN ELSE EBADF) IN
       Result(H, SetErr(m1, error_get_io_from_system(error_get_last_net(m1)), error_get_last_net(m1),
                        "Failed to call getpeername() to get remote socket address"),
              NULL, {"getpeername"}, FALSE)
  ELSE [Result(H, m, SomeAddress, {"getpeername"}, FALSE)
          EXCEPT !.out = socket_address_new_from_native(sys_getpeername(m.fdt, H[p].fd))]

\* socket.c: _XX__socket_set_details_from_fd.  getsockopt(SO_TYPE) and getsockname
\* fail with EBADF on a descriptor that is not open; getpeername succeeds when the
\* descriptor has a peer; ka is what getsockopt(SO_KEEPALIVE) reads.
_XX__socket_set_details_from_fd(p, H, m, ka) ==
  LET fd == H[p].fd IN
  IF ~IsOpen(m.fdt, fd)
  THEN LET m1 == SetErrno(m, EBADF) IN
       [ok |-> FALSE, s |-> H,
        m |-> SetErr(m1, error_get_io_from_system(error_get_last_net(m1)), error_get_last_net(m1),
                     "Failed to call getsockopt() to get socket info for fd")]
  ELSE LET F == m.fdt[fd]
           type == IF F.type \in {SOCKET_TYPE_STREAM, SOCKET_TYPE_DATAGRAM, SOCKET_TYPE_SEQPACKET}
                   THEN F.type ELSE SOCKET_TYPE_UNKNOWN
           family == IF F.family \in {SOCKET_FAMILY_INET, SOCKET_FAMILY_INET6}
                     THEN F.family ELSE SOCKET_FAMILY_UNKNOWN
           protocol == IF family = SOCKET_FAMILY_UNKNOWN THEN H[p].protocol
                       ELSE IF type = SOCKET_TYPE_STREAM THEN SOCKET_PROTOCOL_TCP
                       ELSE IF type = SOCKET_TYPE_DATAGRAM THEN SOCKET_PROTOCOL_UDP
                       ELSE H[p].protocol
           peer == family # SOCKET_FAMILY_UNKNOWN /\ F.conn = "ok"
       IN [ok |-> TRUE,
           s |-> [H EXCEPT ![p].type = type, ![p].family = family, ![p].protocol = protocol,
                           ![p].connected = IF peer THEN TRUE ELSE @, ![p].keepalive = ka],
           m |-> IF family # SOCKET_FAMILY_UNKNOWN /\ ~peer THEN SetErrno(m, ENOTCONN) ELSE m]

\* socket.c: socket_new_from_fd, from the call of _XX__socket_set_details_from_fd
\* (whose result is d) on: the descriptor is made non-blocking, the defaults set.
socket_new_from_fd_finish(p, fd, H, d, o) ==
  IF ~d.ok
  THEN Result(H, d.m, NULL, {"getsockopt"}, FALSE)
  ELSE LET nb == _XX__socket_set_fd_blocking(fd, FALSE, d.m, o.nb) IN
  IF ~nb.ok
  THEN Result(H, nb.m, NULL, {"getsockopt", "ioctl"}, FALSE)
  ELSE Result([socket_set_listen_backlog(p, SOCKET_DEFAULT_BACKLOG, d.s) EXCEPT ![p].timeout = 0, ![p].blocking = TRUE],
              nb.m, p, {"getsockopt", "ioctl"}, FALSE)

\* socket.c: socket_new_from_fd; o.ka and o.nb are the outcomes of
\* getsockopt(SO_KEEPALIVE) and ioctl(FIONBIO).
socket_new_from_fd(fd, H, m, o) ==
  IF fd < 0
  THEN Result(H, SetErr(m, ERROR_IO_INVALID_ARGUMENT, 0, "Unable to create socket from bad fd"), NULL, {}, FALSE)
  ELSE IF calloc(H) = NULL
  THEN Result(H, SetErr(m, ERROR_IO_NO_RESOURCES, 0, "Failed to allocate memory for socket"), NULL, {}, FALSE)
  ELSE socket_new_from_fd_finish(calloc(H), fd, H,
         _XX__socket_set_details_from_fd(calloc(H), [H EXCEPT ![calloc(H)] = [ZeroSocket EXCEPT !.fd = fd]], m, o.ka), o)

(***************************************************************************)
(* accept().  An attempt returns a new descriptor (res = 0 in the script   *)
(* stands for "the lowest free descriptor") only on a listening descriptor *)
(* and with room in the table; the descriptor has the listener's family    *)
(* and type, a peer (the connecting socket, whose local port is port), and *)
(* is in blocking mode.                                                    *)
(***************************************************************************)
sys_accept(m, fd, port) ==
  LET n == LowestFree(m.fdt) IN
  [res |-> n,
   m |-> [m EXCEPT !.fdt[n] = [FreshFd EXCEPT !.family = m.fdt[fd].family, !.type = m.fdt[fd].type,
                                             !.conn = "ok", !.rport = port]]]

\* socket.c: socket_accept, its end: the descriptor res accept() returned is
\* wrapped (n is what socket_new_from_fd returned), or closed when it could not be.
socket_accept_wrap(p, H, l, res, n, c) ==
  IF n.ret = NULL
  THEN [l EXCEPT !.ret = NULL, !.m = sys_close(n.m, res, c).m]
  ELSE [l EXCEPT !.ret = n.ret, !.s = [n.s EXCEPT ![n.ret].protocol = H[p].protocol], !.m = n.m]

\* socket.c: socket_accept, after the loop round accept() (l is how it ended).
socket_accept_after_loop(p, H, l, o, c) ==
  IF l.ret < 0
  THEN [l EXCEPT !.ret = NULL]
  ELSE socket_accept_wrap(p, H, l, sys_accept(l.m, H[p].fd, o.port).res,
                          socket_new_from_fd(sys_accept(l.m, H[p].fd, o.port).res, H,
                                             sys_accept(l.m, H[p].fd, o.port).m, o), c)

\* socket.c: socket_accept; script answers the accept() loop, o the calls of
\* socket_new_from_fd (o.port is the local port of the socket that connected),
\* c the sys_close of a descriptor that could not be wrapped.
socket_accept(p, H, m, script, o, c) ==
  IF p = NULL
  THEN Result(H, SetErr(m, ERROR_IO_INVALID_ARGUMENT, 0, "Invalid input argument"), NULL, {}, FALSE)
  ELSE IF H[p].closed
  THEN Result(H, _XX__socket_check(H[p], m).m, NULL, {}, FALSE)
  ELSE socket_accept_after_loop(p, H,
         io_loop(p, SOCKET_IO_CONDITION_POLLIN, "accept", "Failed to call accept() on socket", H, m, script), o, c)

(***************************************************************************)
(* State, initial state and the actions over the public functions.         *)
(***************************************************************************)
M == [err |-> CURRENT_ERROR, errno |-> errno, fdt |-> fdt]

Live == {p \in Handles : sock[p].live}

\* The pointers a caller passes to the functions that work on a socket: NULL, or
\* the handle in the first slot of the heap (the one socket_new returned).  The
\* handles socket_accept returned are only read, closed and freed.
Pointers == Live \cup {NULL}

Callers == {p \in Live : \A q \in Handles : p <= q} \cup {NULL}

fdOf(p) == IF p = NULL THEN -1 ELSE sock[p].fd

\* What the operation before this one was, when it was a socket_close.
CloseSummary ==
  IF lastOp.op = "socket_close" /\ lastOp.h # NULL
  THEN [was |-> TRUE, h |-> lastOp.h, open |-> lastOp.arg[1], ret |-> lastOp.ret,
        os |-> "close" \in lastOp.calls]
  ELSE [was |-> FALSE, h |-> NULL, open |-> FALSE, ret |-> FALSE, os |-> FALSE]

\* The caller makes at most MaxOps calls.
CanCall == ops < MaxOps

\* A call of a public function: its effects and what is remembered of it.
Call(name, p, arg, r, native) ==
  /\ sock' = r.s
  /\ CURRENT_ERROR' = r.m.err
  /\ errno' = r.m.errno
  /\ fdt' = r.m.fdt
  /\ lastOp' = [op |-> name, h |-> p, arg |-> arg, ret |-> r.ret, calls |-> r.calls,
                waited |-> r.waited, native |-> native]
  /\ prevClose' = CloseSummary

\* A call that counts against MaxOps and moves no data of the connected pair.
Op(name, p, arg, r, native) ==
  /\ ops' = ops + 1
  /\ stream' = stream
  /\ timer' = timer /\ race' = race
  /\ Call(name, p, arg, r, native)

Init ==
  /\ sock = [p \in Handles |-> NoSocket]
  /\ CURRENT_ERROR = NoError
  /\ errno = 0
  /\ fdt = [fd \in Fds |-> ClosedFd]
  /\ lastOp = [op |-> "none", h |-> NULL, arg |-> <<>>, ret |-> "void", calls |-> {},
               waited |-> FALSE, native |-> 0]
  /\ prevClose = [was |-> FALSE, h |-> NULL, open |-> FALSE, ret |-> FALSE, os |-> FALSE]
  /\ ops = 0
  /\ stream = [sent |-> <<>>, rcvd |-> <<>>]
  /\ timer = NoTimer
  /\ race = NoRace

\* The (family, type, protocol) triples socket_new is called with.
NewArgs ==
  {<<SOCKET_FAMILY_INET, SOCKET_TYPE_STREAM, SOCKET_PROTOCOL_DEFAULT>>,
   <<SOCKET_FAMILY_INET6, SOCKET_TYPE_DATAGRAM, SOCKET_PROTOCOL_UDP>>,
   <<SOCKET_FAMILY_INET, SOCKET_TYPE_STREAM, SOCKET_PROTOCOL_UDP>>,
   <<SOCKET_FAMILY_UNKNOWN, SOCKET_TYPE_STREAM, SOCKET_PROTOCOL_TCP>>,
   <<SOCKET_FAMILY_INET, SOCKET_TYPE_UNKNOWN, SOCKET_PROTOCOL_TCP>>,
   <<SOCKET_FAMILY_INET, SOCKET_TYPE_STREAM, SOCKET_PROTOCOL_UNKNOWN>>}

SocketNew ==
  /\ CanCall
  /\ \E a \in NewArgs : \E o \in NewOracles(fdt, a[2], a[3]) :
       LET r == socket_new(a[1], a[2], a[3], sock, M, o) IN
       Op("socket_new", r.ret, a, r, o)

SocketClose ==
  /\ CanCall
  /\ \E p \in Pointers : \E c \in CloseOracles(fdt, fdOf(p)) :
       Op("socket_close", p, <<p # NULL /\ ~sock[p].closed>>, socket_close(p, sock, M, c), c)

SocketFree ==
  /\ CanCall
  /\ \E p \in Pointers : \E c \in CloseOracles(fdt, fdOf(p)) :
       Op("socket_free", p, <<>>, socket_free(p, sock, M, c), c)

SocketCheckConnectResult ==
  /\ CanCall
  /\ \E p \in Callers :
       Op("socket_check_connect_result", p, <<>>, socket_check_connect_result(p, sock, M),
          IF IsOpen(fdt, fdOf(p)) THEN fdt[fdOf(p)] ELSE ClosedFd)

SocketSetKeepalive ==
  /\ CanCall
  /\ \E p \in Callers : \E keepalive \in BOOLEAN : \E o \in SysOracles(fdt, fdOf(p), {EINVAL}) :
       Op("socket_set_keepalive", p, <<keepalive>>, socket_set_keepalive(p, keepalive, sock, M, o), o)

SocketSetBlocking ==
  /\ CanCall
  /\ \E p \in Callers : \E blocking \in BOOLEAN :
       Op("socket_set_blocking", p, <<blocking>>, socket_set_blocking(p, blocking, sock, M), 0)

\* The timeouts socket_set_timeout is called with.
Timeouts == {-1, 0, 1}

SocketSetTimeout ==
  /\ CanCall
  /\ \E p \in Callers : \E timeout \in Timeouts :
       Op("socket_set_timeout", p, <<timeout>>, socket_set_timeout(p, timeout, sock, M), 0)

\* The backlogs socket_set_listen_backlog is called with.
Backlogs == {1, -1}

SocketSetListenBacklog ==
  /\ CanCall
  /\ \E p \in Callers : \E backlog \in Backlogs :
       Op("socket_set_listen_backlog", p, <<backlog>>,
          Result(socket_set_listen_backlog(p, backlog, sock), M, "void", {}, FALSE), 0)

\* The addresses a caller passes: none, or one socket_address_new made.
Addresses == {NULL, SomeAddress}

SocketBind ==
  /\ CanCall
  /\ \E p \in Callers : \E address \in Addresses : \E allow_reuse \in BOOLEAN :
       \E b \in SysOracles(fdt, fdOf(p), {EADDRINUSE}) :
         LET o == [ra |-> IF IsOpen(fdt, fdOf(p)) THEN 0 ELSE EBADF,
                   rp |-> IF IsOpen(fdt, fdOf(p)) THEN 0 ELSE EBADF, b |-> b]
         IN Op("socket_bind", p, <<address, allow_reuse>>,
               socket_bind(p, address, allow_reuse, sock, M, o), o)

\* listen() on a descriptor that is no stream fails with EOPNOTSUPP.
ListenOracles(F, fd) ==
  IF ~IsOpen(F, fd) THEN {EBADF}
  ELSE IF F[fd].type = SOCKET_TYPE_STREAM THEN {0, EADDRINUSE}
  ELSE {EOPNOTSUPP}

SocketListen ==
  /\ CanCall
  /\ \E p \in Callers : \E o \in ListenOracles(fdt, fdOf(p)) :
       Op("socket_listen", p, <<>>, socket_listen(p, sock, M, o), o)

\* The wait oracle of a call that did not wait.
NoWait == [eintr |-> 0, evret |-> 1, eno |-> 0, soerr |-> 0]

SocketConnect ==
  /\ CanCall
  /\ \E p \in Callers : \E address \in Addresses : \E c \in ConnectOracles(fdt, fdOf(p)) :
       LET F1 == IF IsOpen(fdt, fdOf(p)) THEN connect_loop(fdOf(p), M, c.eintr, c.cn).m.fdt ELSE fdt IN
       \E w \in PollOracles(F1, fdOf(p), SOCKET_IO_CONDITION_POLLOUT,
                            IF p = NULL THEN -1 ELSE PollTimeout(sock[p])) :
         LET o == [eintr |-> c.eintr, cn |-> c.cn, w |-> w]
             r == socket_connect(p, address, sock, M, o)
         IN /\ r.waited \/ w = NoWait
            /\ ("connect" \in r.calls) \/ c = [eintr |-> 0, cn |-> EBADF] \/ c.cn = 0
            /\ Op("socket_connect", p, <<address>>, r, o)

SocketIoConditionWait ==
  /\ CanCall
  /\ \E p \in Callers : \E condition \in {SOCKET_IO_CONDITION_POLLIN, SOCKET_IO_CONDITION_POLLOUT} :
       \E w \in PollOracles(fdt, fdOf(p), condition, IF p = NULL THEN -1 ELSE PollTimeout(sock[p])) :
         LET r == socket_io_condition_wait(p, condition, sock, M, w) IN
         /\ r.waited \/ w = NoWait
         /\ Op("socket_io_condition_wait", p, <<condition>>, r, w)

SocketShutdown ==
  /\ CanCall
  /\ \E p \in Callers : \E shutdown_read \in BOOLEAN : \E shutdown_write \in BOOLEAN :
       \E o \in SysOracles(fdt, fdOf(p), {ENOTCONN}) :
         LET r == socket_shutdown(p, shutdown_read, shutdown_write, sock, M, o) IN
         /\ ("shutdown" \in r.calls) \/ o \in {0, EBADF}
         /\ Op("socket_shutdown", p, <<shutdown_read, shutdown_write>>, r, o)

SocketSetBufferSize ==
  /\ CanCall
  /\ \E p \in Callers : \E o \in SysOracles(fdt, fdOf(p), {EINVAL}) :
       LET r == socket_set_buffer_size(p, SOCKET_DIRECTION_RCV, 1, sock, M, o) IN
       /\ ("setsockopt" \in r.calls) \/ o \in {0, EBADF}
       /\ Op("socket_set_buffer_size", p, <<>>, r, o)

SocketGetLocalAddress ==
  /\ CanCall
  /\ \E p \in Callers :
       Op("socket_get_local_address", p, <<>>, socket_get_local_address(p, sock, M), 0)

\* Asked of any handle, so also of the ones socket_accept returned; what is
\* remembered of the call includes the address object returned.
SocketGetRemoteAddress ==
  /\ CanCall
  /\ \E p \in Pointers :
       LET r == socket_get_remote_address(p, sock, M) IN
       Op("socket_get_remote_address", p, <<>>, r, r.out)

(***************************************************************************)
(* The answers of the system to the loop round accept, recv, recvfrom,     *)
(* send and sendto.  A call on a descriptor that is not open fails with    *)
(* EBADF; accept on one that does not listen with EINVAL, and it returns a *)
(* descriptor only when the table has room; recv and send on a stream      *)
(* without a peer fail with ENOTCONN.  Otherwise the call returns okres,    *)
(* or fails with ETIMEDOUT on a connection the system has given up,        *)
(* is interrupted (EINTR) or would block (EAGAIN).  The waits inside the   *)
(* loop are not themselves interrupted.                                    *)
(***************************************************************************)
CallOutcomes(F, fd, call, okres) ==
  LET fail(E) == {[res |-> -1, eno |-> e] : e \in E}
      ok == {[res |-> okres, eno |-> 0]}
  IN IF ~IsOpen(F, fd) THEN fail({EBADF})
     ELSE IF call = "accept"
     THEN IF ~F[fd].listening THEN fail({EINVAL})
          ELSE IF FreeFds(F) = {} THEN fail({EMFILE})
          ELSE ok \cup fail({EINTR, EAGAIN})
     ELSE IF F[fd].type = SOCKET_TYPE_STREAM /\ F[fd].conn # "ok" THEN fail({ENOTCONN})
     ELSE IF F[fd].type = SOCKET_TYPE_STREAM THEN ok \cup fail({EINTR, EAGAIN, ETIMEDOUT})
     ELSE ok \cup fail({EINTR, EAGAIN})

Attempts(p, call, condition, okres) ==
  LET W == IF p # NULL /\ sock[p].blocking
           THEN {v \in PollOracles(fdt, fdOf(p), condition, PollTimeout(sock[p])) : v.eintr = 0}
           ELSE {NoWait}
  IN {[w |-> w, res |-> x.res, eno |-> x.eno] :
        w \in {v \in W : v.evret = 1}, x \in CallOutcomes(fdt, fdOf(p), call, okres)}
     \cup {[w |-> w, res |-> -1, eno |-> 0] : w \in {v \in W : v.evret # 1}}

\* The attempts after which the loop may go round again.
Retried(A) == {a \in A : a.w.evret = 1 /\ a.res < 0 /\ a.eno \in {EINTR, EAGAIN}}

\* The sequences of at most n of the attempts R.
RECURSIVE Prefixes(_, _)
Prefixes(R, n) ==
  IF n = 0 THEN {<<>>}
  ELSE LET P == Prefixes(R, n - 1) IN P \cup {Append(s, a) : s \in P, a \in R}

\* The scripts of at most MaxRetry retries and the attempt after them.
Scripts(A) == {Append(s, a) : s \in Prefixes(Retried(A), MaxRetry), a \in A}

\* A script answers a call when the loop used all of it and came to an end, and
\* only its first wait ends a pending connect.
Answers(script, r) ==
  /\ r.done /\ r.left = <<>>
  /\ \A i \in 2..Len(script) : script[i].w.soerr = 0
  /\ (r.calls = {} /\ ~r.waited) => Len(script) = 1

\* What the retry loop of a call did: the answers of the system to its native
\* calls, and how many waits and native calls it made.
Rounds(script, r) ==
  [script |-> [i \in 1..Len(script) |-> [res |-> script[i].res, eno |-> script[i].eno]],
   waits |-> r.waits, attempts |-> r.attempts, cond |-> r.cond]

\* The (buffer, buflen) and (address, buffer, buflen) a caller passes: a buffer
\* with room, and the same with one argument NULL or zero.
Buffer == SomeAddress

IoArgs == {<<Buffer, 1>>, <<Buffer, 0>>, <<NULL, 1>>}

IoToArgs == {<<SomeAddress, Buffer, 1>>, <<NULL, Buffer, 1>>, <<SomeAddress, NULL, 1>>, <<SomeAddress, Buffer, 0>>}

\* The local ports of the sockets that connect to a listener.
PeerPorts == {258, 8080}

SocketAccept ==
  /\ CanCall
  /\ \E p \in Callers : \E script \in Scripts(Attempts(p, "accept", SOCKET_IO_CONDITION_POLLIN, 0)) :
       \E nb \in {0, EINVAL} : \E c \in {[res |-> 0, eno |-> 0, rel |-> TRUE], [res |-> -1, eno |-> EINTR, rel |-> TRUE]} :
        \E port \in PeerPorts :
         LET o == [ka |-> FALSE, nb |-> nb, port |-> port]
             r == socket_accept(p, sock, M, script, o, c)
             accepted == "accept" \in r.calls /\ script[Len(script)].res >= 0
         IN /\ Answers(script, r)
            /\ (port # 258) => accepted
            /\ (nb # 0) => accepted /\ FreeSlots(sock) # {}
            /\ (c.res # 0) => accepted /\ r.ret = NULL
            /\ Op("socket_accept", p, <<>>, r, Rounds(script, r))

SocketReceive ==
  /\ CanCall
  /\ \E p \in Callers : \E a \in IoArgs :
       \E script \in Scripts(Attempts(p, "recv", SOCKET_IO_CONDITION_POLLIN, a[2])) :
         LET r == socket_receive(p, a[1], a[2], sock, M, script) IN
         Answers(script, r) /\ Op("socket_receive", p, a, r, Rounds(script, r))

SocketReceiveFrom ==
  /\ CanCall
  /\ \E p \in Callers : \E a \in IoArgs :
       \E script \in Scripts(Attempts(p, "recvfrom", SOCKET_IO_CONDITION_POLLIN, a[2])) :
         LET r == socket_receive_from(p, a[1], a[2], sock, M, script) IN
         Answers(script, r) /\ Op("socket_receive_from", p, a, r, Rounds(script, r))

SocketSend ==
  /\ CanCall
  /\ \E p \in Callers : \E a \in IoArgs :
       \E script \in Scripts(Attempts(p, "send", SOCKET_IO_CONDITION_POLLOUT, a[2])) :
         LET r == socket_send(p, a[1], a[2], sock, M, script) IN
         Answers(script, r) /\ Op("socket_send", p, a, r, Rounds(script, r))

SocketSendTo ==
  /\ CanCall
  /\ \E p \in Callers : \E a \in IoToArgs :
       \E script \in Scripts(Attempts(p, "sendto", SOCKET_IO_CONDITION_POLLOUT, a[3])) :
         LET r == socket_send_to(p, a[1], a[2], a[3], sock, M, script) IN
         Answers(script, r) /\ Op("socket_send_to", p, a, r, Rounds(script, r))

\* The peer of a connection being established answers: the connection is made,
\* or it fails and the error is left for SO_ERROR.
PeerResponds ==
  \E fd \in Fds : \E e \in {0, ECONNREFUSED} :
    /\ fdt[fd].open /\ fdt[fd].conn = "pending"
    /\ fdt' = [fdt EXCEPT ![fd].conn = IF e = 0 THEN "ok" ELSE "none", ![fd].soerr = e]
    /\ lastOp' = [op |-> "peer", h |-> NULL, arg |-> <<>>, ret |-> "void", calls |-> {},
                  waited |-> FALSE, native |-> e]
    /\ prevClose' = CloseSummary
    /\ UNCHANGED <<sock, CURRENT_ERROR, errno, ops, stream, timer, race>>

Next ==
  \/ SocketNew
  \/ SocketClose
  \/ SocketFree
  \/ SocketCheckConnectResult
  \/ SocketSetKeepalive
  \/ SocketSetBlocking
  \/ SocketSetTimeout
  \/ SocketSetListenBacklog
  \/ SocketBind
  \/ SocketListen
  \/ SocketConnect
  \/ SocketIoConditionWait
  \/ SocketShutdown
  \/ SocketSetBufferSize
  \/ SocketGetLocalAddress
  \/ SocketGetRemoteAddress
  \/ SocketAccept
  \/ SocketReceive
  \/ SocketReceiveFrom
  \/ SocketSend
  \/ SocketSendTo
  \/ PeerResponds

Spec == Init /\ [][Next]_vars

(***************************************************************************)
(* A connected pair of stream sockets: handle 1 (descriptor 0) has         *)
(* connected to a listener and handle 2 (descriptor 1) is what             *)
(* socket_accept returned for it.  The application on side 1 transmits     *)
(* Message: every socket_send is handed the next bytes not yet reported as *)
(* sent.  stream.sent is the concatenation of what the sends reported as   *)
(* sent, stream.rcvd of what the receives returned.  What lastOp remembers  *)
(* of a call is written in integers here (false and void 0, true 1).       *)
(***************************************************************************)
Message == <<1, 2, 3>>

\* The largest buffer handed to socket_send and socket_receive.
MaxBuf == 2

\* errno of send() on a connection whose sending direction is shut down.
EPIPE == 32

Min(a, b) == IF a < b THEN a ELSE b

PairFd == [ClosedFd EXCEPT !.open = TRUE, !.family = SOCKET_FAMILY_INET, !.type = SOCKET_TYPE_STREAM,
                           !.conn = "ok", !.nonblock = TRUE]

PairSocket == [ZeroSocket EXCEPT !.family = SOCKET_FAMILY_INET, !.type = SOCKET_TYPE_STREAM,
                                 !.protocol = SOCKET_PROTOCOL_TCP, !.blocking = TRUE,
                                 !.listen_backlog = SOCKET_DEFAULT_BACKLOG, !.connected = TRUE]

PairInit ==
  /\ sock = [p \in Handles |-> [PairSocket EXCEPT !.fd = p - 1]]
  /\ CURRENT_ERROR = NoError
  /\ errno = 0
  /\ fdt = [fd \in Fds |-> [PairFd EXCEPT !.peer = 1 - fd]]
  /\ lastOp = [op |-> "none", h |-> NULL, arg |-> <<>>, ret |-> 0, calls |-> {},
               waited |-> FALSE, native |-> 0]
  /\ prevClose = [was |-> FALSE, h |-> NULL, open |-> FALSE, ret |-> FALSE, os |-> FALSE]
  /\ ops = 0
  /\ stream = [sent |-> <<>>, rcvd |-> <<>>]
  /\ timer = NoTimer
  /\ race = NoRace

\* recv() finds the end of the stream: the reading direction is shut down here
\* or the sending direction at the peer, and nothing is left to read.
EndOfStream(F, fd) ==
  /\ F[fd].inq = <<>>
  /\ F[fd].rdshut \/ (F[fd].peer \in Fds /\ F[F[fd].peer].wrshut)

\* The answers of the system to recv(fd, buffer, buflen) and send(fd, buffer,
\* buflen) on a descriptor of the pair (all descriptors are in non-blocking
\* mode).  recv returns the bytes queued, as many as fit; 0 at the end of the
\* stream, or for a zero-length request when bytes are queued; else it would
\* block.  send takes a part of the buffer or would block; EPIPE once the sending
\* direction is shut down.  Either may be interrupted.
PairOutcomes(F, fd, call, buflen) ==
  LET fail(E) == {[res |-> -1, eno |-> e] : e \in E}
      ok(R) == {[res |-> n, eno |-> 0] : n \in R}
  IN IF call = "recv"
     THEN IF F[fd].inq # <<>> THEN ok(IF buflen = 0 THEN {0} ELSE 1..Min(buflen, Len(F[fd].inq))) \cup fail({EINTR})
          ELSE IF EndOfStream(F, fd) THEN ok({0}) \cup fail({EINTR})
          ELSE fail({EINTR, EAGAIN})
     ELSE IF F[fd].wrshut THEN fail({EPIPE})
          ELSE ok(1..buflen) \cup fail({EINTR, EAGAIN})

\* poll() on a descriptor of the pair does not fail, and does not time out while
\* the descriptor is readable.
PairAttempts(p, call, condition, buflen) ==
  LET readable == fdt[fdOf(p)].inq # <<>> \/ EndOfStream(fdt, fdOf(p))
      W == IF sock[p].blocking
           THEN {v \in PollOracles(fdt, fdOf(p), condition, PollTimeout(sock[p])) :
                   /\ v.eintr = 0 /\ v.evret # -1
                   /\ (v.evret = 0 => ~(condition = SOCKET_IO_CONDITION_POLLIN /\ readable))}
           ELSE {NoWait}
  IN {[w |-> w, res |-> x.res, eno |-> x.eno] :
        w \in {v \in W : v.evret = 1}, x \in PairOutcomes(fdt, fdOf(p), call, buflen)}
     \cup {[w |-> w, res |-> -1, eno |-> 0] : w \in {v \in W : v.evret # 1}}

\* What the last native call of a loop returned, 0 when it failed or was not made.
Transferred(script, r) ==
  IF r.attempts > 0 /\ r.attempts = Len(script) /\ script[r.attempts].res > 0
  THEN script[r.attempts].res ELSE 0

\* send() that took the first n bytes of data: they are queued at the peer.
sys_send(m, fd, data, n) == [m EXCEPT !.fdt[m.fdt[fd].peer].inq = @ \o SubSeq(data, 1, n)]

\* recv() that returned n bytes: they leave the queue.
sys_recv(m, fd, n) == [m EXCEPT !.fdt[fd].inq = SubSeq(@, n + 1, Len(@))]

\* The bytes of Message not yet reported as sent.
Unsent == SubSeq(Message, Len(stream.sent) + 1, Len(Message))

PairSend ==
  \E buflen \in 1..Min(MaxBuf, Len(Unsent)) :
    \E script \in Scripts(PairAttempts(1, "send", SOCKET_IO_CONDITION_POLLOUT, buflen)) :
      LET r == socket_send(1, Buffer, buflen, sock, M, script)
          data == SubSeq(Unsent, 1, buflen)
      IN /\ Answers(script, r)
         /\ Call("socket_send", 1, <<Buffer, buflen>>,
                 [r EXCEPT !.m = sys_send(r.m, fdOf(1), data, Transferred(script, r))], 0)
         /\ stream' = [stream EXCEPT !.sent = @ \o SubSeq(data, 1, IF r.ret > 0 THEN r.ret ELSE 0)]
         /\ ops' = ops /\ timer' = timer /\ race' = race

\* socket_receive(p, Buffer, buflen) answered by script.
PairReceiveCall(p, buflen, script) ==
  LET r == socket_receive(p, Buffer, buflen, sock, M, script)
      data == SubSeq(fdt[fdOf(p)].inq, 1, Transferred(script, r))
  IN /\ stream' = [stream EXCEPT !.rcvd = @ \o SubSeq(data, 1, IF r.ret > 0 THEN r.ret ELSE 0)]
     /\ ops' = ops /\ timer' = timer /\ race' = race
     /\ Answers(script, r)
     /\ Call("socket_receive", p, <<Buffer, buflen>>,
             [r EXCEPT !.m = sys_recv(r.m, fdOf(p), Transferred(script, r))], 0)

PairReceive ==
  \E p \in Handles : \E buflen \in 0..MaxBuf :
    \E script \in Scripts(PairAttempts(p, "recv", SOCKET_IO_CONDITION_POLLIN, buflen)) :
      PairReceiveCall(p, buflen, script)

PairSetBlocking ==
  \E p \in Handles : \E blocking \in BOOLEAN :
    /\ Call("socket_set_blocking", p, <<IF blocking THEN 1 ELSE 0>>,
            [socket_set_blocking(p, blocking, sock, M) EXCEPT !.ret = 0], 0)
    /\ UNCHANGED <<ops, stream, timer, race>>

\* The receiving side sets and clears a timeout.
PairSetTimeout ==
  \E timeout \in {0, 1} :
    /\ Call("socket_set_timeout", 2, <<timeout>>, [socket_set_timeout(2, timeout, sock, M) EXCEPT !.ret = 0], 0)
    /\ UNCHANGED <<ops, stream, timer, race>>

\* Either side shuts the connection down in both directions.
PairShutdown ==
  \E p \in Handles :
    /\ Call("socket_shutdown", p, <<1, 1>>,
            [socket_shutdown(p, TRUE, TRUE, sock, M, 0) EXCEPT !.ret = IF @ THEN 1 ELSE 0], 0)
    /\ UNCHANGED <<ops, stream, timer, race>>

PairNext ==
  \/ PairSend
  \/ PairReceive
  \/ PairSetBlocking
  \/ PairSetTimeout
  \/ PairShutdown

PairSpec == PairInit /\ [][PairNext]_vars

\* A socket_receive of the receiving side that returns data.
PairDrain ==
  \E buflen \in 1..MaxBuf :
    \E script \in Scripts(PairAttempts(2, "recv", SOCKET_IO_CONDITION_POLLIN, buflen)) :
      /\ socket_receive(2, Buffer, buflen, sock, M, script).ret > 0
      /\ PairReceiveCall(2, buflen, script)

\* socket_receive on the receiving side, with room in the buffer.
StreamReceive ==
  \E buflen \in 1..MaxBuf :
    \E script \in Scripts(PairAttempts(2, "recv", SOCKET_IO_CONDITION_POLLIN, buflen)) :
      PairReceiveCall(2, buflen, script)

\* The interleavings of socket_send on one side and socket_receive on the other,
\* each side in blocking or in non-blocking mode.
StreamNext ==
  \/ PairSend
  \/ StreamReceive
  \/ PairSetBlocking

\* The receiving side goes on calling socket_receive while data is queued for it,
\* and the system hands the data over.
PairLive == PairInit /\ [][StreamNext]_vars /\ WF_stream(PairDrain)
(***************************************************************************)
(* The properties.  lastOp describes the call that led to the state, so a  *)
(* primed lastOp in an action formula is the call of the step and the      *)
(* unprimed variables are the state it was made in.                        *)
(***************************************************************************)

\* C1: socket_close is idempotent: for any open handle, two calls of socket_close
\* in a row both return success, and over the two calls the descriptor is released
\* exactly once: the first call issues the OS close, the second issues none.
C1_CloseTwice ==
  (lastOp.op = "socket_close" /\ prevClose.was /\ prevClose.h = lastOp.h /\ prevClose.open)
    => /\ prevClose.ret = TRUE
       /\ lastOp.ret = TRUE
       /\ prevClose.os
       /\ "close" \notin lastOp.calls

\* The fields of a closed handle.
ClosedFields ==
  \A p \in Handles :
    (sock[p].live /\ sock[p].closed) => (sock[p].fd = -1 /\ ~sock[p].connected /\ ~sock[p].listening)

\* C2: in every reachable state a closed handle has fd = -1, connected = false and
\* listening = false, and no operation makes closed false again on a handle that
\* is closed (the handle stays closed for as long as it exists).
C2_ClosedAbsorbing ==
  /\ []ClosedFields
  /\ [][\A p \in Handles : (sock[p].live /\ sock[p].closed /\ sock'[p].live) => sock'[p].closed]_vars

\* An operation other than socket_close has been applied to a closed handle.
C2_Witness ==
  /\ lastOp.op = "socket_connect"
  /\ lastOp.h # NULL
  /\ sock[lastOp.h].closed

\* The operations that mutate the handle or touch its descriptor.
DescriptorOps ==
  {"socket_bind", "socket_connect", "socket_check_connect_result", "socket_listen", "socket_accept",
   "socket_receive", "socket_receive_from", "socket_send", "socket_send_to", "socket_shutdown",
   "socket_set_keepalive", "socket_set_buffer_size", "socket_io_condition_wait",
   "socket_get_local_address", "socket_get_remote_address"}

\* The call of the step is made on a handle that is closed.
OnClosedHandle == lastOp'.h # NULL /\ sock[lastOp'.h].live /\ sock[lastOp'.h].closed

\* C3: every operation that mutates the handle or touches its descriptor checks
\* the closed flag first: called on a closed handle it issues no OS call on the
\* handle's descriptor.
C3_NoOsCallWhenClosed ==
  [][(lastOp'.op \in DescriptorOps /\ OnClosedHandle) => (lastOp'.calls = {} /\ ~lastOp'.waited)]_vars

\* The value with which a function reports failure: NULL, -1 or false.
FailureSentinel(op) ==
  IF op \in {"socket_accept", "socket_get_local_address", "socket_get_remote_address"} THEN NULL
  ELSE IF op \in {"socket_receive", "socket_receive_from", "socket_send", "socket_send_to"} THEN -1
  ELSE FALSE

\* The functions without a return value.
VoidOps ==
  {"socket_set_keepalive", "socket_set_blocking", "socket_set_timeout", "socket_set_listen_backlog"}

\* C4: any public operation called on an already-closed handle returns its failure
\* sentinel, records an ErrorState of kind not-available or invalid-argument, and
\* leaves every field of the handle unchanged.
C4_ClosedHandleRejects ==
  [][(lastOp'.op \in DescriptorOps \cup VoidOps \cup {"socket_close"} /\ OnClosedHandle)
       => /\ lastOp'.op \notin VoidOps => lastOp'.ret = FailureSentinel(lastOp'.op)
          /\ CURRENT_ERROR'.code \in {ERROR_IO_NOT_AVAILABLE, ERROR_IO_INVALID_ARGUMENT}
          /\ sock'[lastOp'.h] = sock[lastOp'.h]]_vars

\* C5: a handle returned by a successful socket_new has blocking = true, closed,
\* listening and connected false, timeout 0, listen_backlog 5, a descriptor >= 0,
\* and the family, type and protocol it was asked for.
C5_FreshSocket ==
  (lastOp.op = "socket_new" /\ lastOp.ret # NULL)
    => LET s == sock[lastOp.ret] IN
       /\ s.live /\ s.blocking /\ ~s.closed /\ ~s.listening /\ ~s.connected
       /\ s.timeout = 0 /\ s.listen_backlog = 5 /\ s.fd >= 0
       /\ s.family = lastOp.arg[1] /\ s.type = lastOp.arg[2] /\ s.protocol = lastOp.arg[3]

C5_Witness == lastOp.op = "socket_new" /\ lastOp.ret # NULL /\ fdt[sock[lastOp.ret].fd].open

\* The backlog of a listening handle is the one its descriptor listens with.
BacklogAsListened ==
  \A p \in Handles :
    (sock[p].live /\ sock[p].listening /\ IsOpen(fdt, sock[p].fd) /\ fdt[sock[p].fd].listening)
      => sock[p].listen_backlog = fdt[sock[p].fd].backlog

\* C6: listening becomes true only by a socket_listen that returns success (a
\* failed socket_listen leaves it as it was); while listening is true
\* socket_set_listen_backlog leaves listen_backlog unchanged, so that the value
\* read back is the backlog that was passed to listen().
C6_ListeningAndBacklog ==
  /\ [][\A p \in Handles :
          (sock'[p].live /\ sock'[p].listening /\ ~(sock[p].live /\ sock[p].listening))
            => (lastOp'.op = "socket_listen" /\ lastOp'.h = p /\ lastOp'.ret = TRUE)]_vars
  /\ [][(lastOp'.op = "socket_listen" /\ lastOp'.h # NULL /\ lastOp'.ret = FALSE)
          => sock'[lastOp'.h].listening = sock[lastOp'.h].listening]_vars
  /\ [][(lastOp'.op = "socket_set_listen_backlog" /\ lastOp'.h # NULL /\ sock[lastOp'.h].listening)
          => sock'[lastOp'.h].listen_backlog = sock[lastOp'.h].listen_backlog]_vars
  /\ []BacklogAsListened

\* socket_set_listen_backlog has been called with another backlog on a listening handle.
C6_Witness ==
  /\ lastOp.op = "socket_set_listen_backlog"
  /\ lastOp.h # NULL
  /\ sock[lastOp.h].listening
  /\ lastOp.arg[1] # sock[lastOp.h].listen_backlog
  /\ fdt[sock[lastOp.h].fd].listening

\* The errno of a connect() that cannot complete immediately.
NativePending == {EAGAIN, EINPROGRESS, EALREADY}

\* The call of the step is a socket_connect that reaches connect().
ConnectCalled ==
  /\ lastOp'.op = "socket_connect"
  /\ lastOp'.h # NULL
  /\ lastOp'.arg[1] # NULL
  /\ ~sock[lastOp'.h].closed

\* C7, as stated: socket_connect on a non-blocking handle whose connect() ends
\* would-block or in-progress returns false without the readiness wait, records an
\* ErrorState of kind would-block, and leaves connected unchanged.
C7_NonBlockingWouldBlock ==
  [][(ConnectCalled /\ ~sock[lastOp'.h].blocking /\ lastOp'.native.cn \in NativePending)
       => /\ lastOp'.ret = FALSE
          /\ ~lastOp'.waited
          /\ CURRENT_ERROR'.code = ERROR_IO_WOULD_BLOCK
          /\ sock'[lastOp'.h].connected = sock[lastOp'.h].connected]_vars

\* C7, amended: socket_connect on a non-blocking handle whose connect() ends
\* would-block or in-progress returns false without the readiness wait, records an
\* ErrorState whose kind is that of the native result (would-block for EAGAIN,
\* in-progress for EINPROGRESS and EALREADY) with the errno as native code, and
\* leaves connected unchanged.
C7_NonBlockingPending ==
  [][(ConnectCalled /\ ~sock[lastOp'.h].blocking /\ lastOp'.native.cn \in NativePending)
       => /\ lastOp'.ret = FALSE
          /\ ~lastOp'.waited
          /\ CURRENT_ERROR'.code = IF lastOp'.native.cn = EAGAIN THEN ERROR_IO_WOULD_BLOCK
                                                                ELSE ERROR_IO_IN_PROGRESS
          /\ CURRENT_ERROR'.native_code = lastOp'.native.cn
          /\ sock'[lastOp'.h].connected = sock[lastOp'.h].connected]_vars

\* A non-blocking socket_connect has ended in progress.
C7_Witness ==
  /\ lastOp.op = "socket_connect"
  /\ lastOp.h # NULL
  /\ ~sock[lastOp.h].blocking
  /\ lastOp.native.cn = EINPROGRESS
  /\ lastOp.ret = FALSE
  /\ fdt[sock[lastOp.h].fd].conn = "pending"

\* The pending error the connect-result check reads after the wait of the step's
\* socket_connect: the one the wait left when it ended a connection in progress,
\* else the one the descriptor had.
PendingErrorAfterWait ==
  IF lastOp'.native.cn = EAGAIN THEN fdt[sock[lastOp'.h].fd].soerr ELSE lastOp'.native.w.soerr

\* C8: socket_connect returns true exactly when connect() succeeded at once, or
\* the handle is blocking, connect() ended would-block or in-progress, the wait for
\* write-readiness succeeded and the connect-result check found no pending error;
\* when it returns true connected is true; and an interrupted connect() is
\* retried: what is reported is the result of the call that was not interrupted.
C8_ConnectResult ==
  [][ConnectCalled
       => /\ lastOp'.ret = TRUE
               <=> \/ lastOp'.native.cn = 0
                   \/ /\ sock[lastOp'.h].blocking
                      /\ lastOp'.native.cn \in NativePending
                      /\ lastOp'.native.w.evret = 1
                      /\ PendingErrorAfterWait = 0
          /\ lastOp'.ret = TRUE => sock'[lastOp'.h].connected
          /\ (lastOp'.native.eintr > 0 /\ ~lastOp'.waited /\ lastOp'.ret = FALSE)
               => (CURRENT_ERROR'.native_code = lastOp'.native.cn /\ CURRENT_ERROR'.native_code # EINTR)]_vars

\* A blocking socket_connect was interrupted, waited, and returned true.
C8_Witness ==
  /\ lastOp.op = "socket_connect"
  /\ lastOp.ret = TRUE
  /\ lastOp.waited
  /\ lastOp.native.eintr > 0
  /\ sock[lastOp.h].connected

\* C9: socket_check_connect_result reads the pending socket error: when it is zero
\* the call returns true and sets connected; when it is not, the call returns
\* false and records an ErrorState with the kind the value classifies to and the
\* value as native code; closed and the descriptor are not changed.
C9_CheckConnectResult ==
  [][(lastOp'.op = "socket_check_connect_result" /\ lastOp'.h # NULL /\ IsOpen(fdt, sock[lastOp'.h].fd))
       => LET val == fdt[sock[lastOp'.h].fd].soerr
              s == sock'[lastOp'.h]
          IN /\ val = 0 => (lastOp'.ret = TRUE /\ s.connected)
             /\ val # 0 => /\ lastOp'.ret = FALSE
                           /\ CURRENT_ERROR'.code = error_get_io_from_system(val)
                           /\ CURRENT_ERROR'.native_code = val
             /\ s.closed = sock[lastOp'.h].closed
             /\ s.fd = sock[lastOp'.h].fd]_vars

\* socket_check_connect_result has read a pending error.
C9_Witness ==
  /\ lastOp.op = "socket_check_connect_result"
  /\ lastOp.ret = FALSE
  /\ lastOp.native.soerr = ECONNREFUSED
  /\ CURRENT_ERROR.code = ERROR_IO_CONNECTION_REFUSED

\* C10: socket_check_connect_result called after a non-blocking socket_connect,
\* while the connection is still being established, returns false with the
\* in-progress error kind, and the handle is not marked connected.
C10_CheckWhilePending ==
  [][(/\ lastOp'.op = "socket_check_connect_result"
      /\ lastOp'.h # NULL
      /\ ~sock[lastOp'.h].blocking
      /\ IsOpen(fdt, sock[lastOp'.h].fd)
      /\ fdt[sock[lastOp'.h].fd].conn = "pending")
       => /\ lastOp'.ret = FALSE
          /\ CURRENT_ERROR'.code = ERROR_IO_IN_PROGRESS
          /\ ~sock'[lastOp'.h].connected]_vars

\* C11: in every reachable state a handle with connected = true has a descriptor
\* with an established peer: connected is set by a successful socket_connect, by
\* construction from an accepted descriptor or by a connect-result check after a
\* connect attempt, and never on a handle on which no connect was attempted.
C11_ConnectedHasPeer ==
  \A p \in Handles :
    (sock[p].live /\ sock[p].connected)
      => (IsOpen(fdt, sock[p].fd) /\ fdt[sock[p].fd].conn = "ok")

\* The operations built on the retry loop.
IoOps == {"socket_accept", "socket_receive", "socket_receive_from", "socket_send", "socket_send_to"}

\* The call of the step is one of them, on a handle.
IoCalled == lastOp'.op \in IoOps /\ lastOp'.h # NULL

EndedWouldBlock ==
  IF lastOp'.op = "socket_connect"
  THEN lastOp'.arg[1] # NULL /\ ~sock[lastOp'.h].closed /\ lastOp'.native.cn = EAGAIN
  ELSE /\ lastOp'.native.attempts > 0
       /\ lastOp'.native.script[lastOp'.native.attempts].res < 0
       /\ lastOp'.native.script[lastOp'.native.attempts].eno = EAGAIN

\* C13: on a handle with blocking = false, connect, accept, send, send_to, receive
\* and receive_from never enter the readiness wait, and when the native call
\* reports would-block they make no further native call and return the failure
\* sentinel with an ErrorState of kind would-block.
C13_NonBlockingNeverWaits ==
  [][((IoCalled \/ (lastOp'.op = "socket_connect" /\ lastOp'.h # NULL)) /\ ~sock[lastOp'.h].blocking)
       => /\ ~lastOp'.waited
          /\ "poll" \notin lastOp'.calls
          /\ lastOp'.op \in IoOps
               => /\ lastOp'.native.waits = 0
                  /\ \A i \in 1..lastOp'.native.attempts :
                       (lastOp'.native.script[i].res < 0 /\ lastOp'.native.script[i].eno = EAGAIN)
                         => i = lastOp'.native.attempts
          /\ EndedWouldBlock
               => /\ lastOp'.ret = FailureSentinel(lastOp'.op)
                  /\ CURRENT_ERROR'.code = ERROR_IO_WOULD_BLOCK
                  /\ CURRENT_ERROR'.native_code = EAGAIN]_vars

\* A non-blocking socket_send was interrupted, then would have blocked.
C13_Witness ==
  /\ lastOp.op = "socket_send"
  /\ lastOp.h # NULL
  /\ ~sock[lastOp.h].blocking
  /\ lastOp.native.attempts = 2
  /\ lastOp.native.script[2].eno = EAGAIN
  /\ lastOp.ret = -1
  /\ CURRENT_ERROR.code = ERROR_IO_WOULD_BLOCK

\* The call of the step has a null handle, a null buffer, a null required
\* address or a zero-length buffer.
InvalidIoArguments ==
  \/ lastOp'.h = NULL
  \/ \E i \in 1..Len(lastOp'.arg) : lastOp'.arg[i] = 0

\* C14: socket_receive, socket_receive_from, socket_send and socket_send_to called
\* with a null handle, a null buffer (or null required address) or a zero-length
\* buffer return -1 with an invalid-argument ErrorState and issue no OS call.
C14_InvalidArguments ==
  [][(lastOp'.op \in {"socket_receive", "socket_receive_from", "socket_send", "socket_send_to"}
        /\ InvalidIoArguments)
       => /\ lastOp'.ret = -1
          /\ CURRENT_ERROR'.code = ERROR_IO_INVALID_ARGUMENT
          /\ lastOp'.calls = {}
          /\ ~lastOp'.waited]_vars

\* C15: on a connected stream socket, socket_receive returns 0 exactly at the end
\* of the stream: it returns 0 once the connection has been shut down in both
\* directions on either side and no data remains, and in no other case (would-block,
\* timeout and every error return -1).
C15_ZeroIsEndOfStream ==
  [][(lastOp'.op = "socket_receive" /\ lastOp'.h # NULL /\ fdt[sock[lastOp'.h].fd].conn = "ok")
       => LET fd == sock[lastOp'.h].fd
              both(g) == fdt[g].rdshut /\ fdt[g].wrshut
          IN /\ (lastOp'.ret = 0) => EndOfStream(fdt, fd)
             /\ (fdt[fd].inq = <<>> /\ (both(fd) \/ both(fdt[fd].peer))) => lastOp'.ret = 0
             /\ (lastOp'.ret = 0) => CURRENT_ERROR' = CURRENT_ERROR
             /\ lastOp'.ret \in {-1} \cup 0..lastOp'.arg[2]]_vars

\* a is a prefix of b.
IsPrefix(a, b) == Len(a) <= Len(b) /\ SubSeq(b, 1, Len(a)) = a

C17_AcceptedHandle ==
  [][ /\ (lastOp'.op = "socket_accept" /\ lastOp'.ret # NULL)
          => LET s == sock'[lastOp'.ret] IN
             /\ ~sock[lastOp'.ret].live /\ s.live
             /\ s.connected /\ ~s.closed
             /\ s.protocol = sock[lastOp'.h].protocol
             /\ s.blocking /\ s.timeout = 0 /\ s.listen_backlog = SOCKET_DEFAULT_BACKLOG
             /\ fdt'[s.fd].rport \in PeerPorts
      /\ (lastOp'.op = "socket_get_remote_address" /\ lastOp'.ret # NULL)
          => lastOp'.native.port = fdt[sock[lastOp'.h].fd].rport ]_vars

\* The remote address of a handle accepted on a listener of the default protocol,
\* non-blocking and with a timeout, was asked for: the peer's port is 258.
C17_Witness ==
  /\ lastOp.op = "socket_get_remote_address" /\ lastOp.ret # NULL /\ lastOp.h = 2
  /\ lastOp.native.port = 258
  /\ sock[1].live /\ sock[1].listening /\ sock[1].protocol = SOCKET_PROTOCOL_DEFAULT
  /\ sock[2].protocol = SOCKET_PROTOCOL_DEFAULT /\ sock[2].connected /\ sock[2].blocking

\* A socket_shutdown on a handle that is there and not closed.
ShutdownCalled == lastOp'.op = "socket_shutdown" /\ lastOp'.h # NULL /\ ~sock[lastOp'.h].closed

\* A handle keeps its descriptor, which stays open, over the step.
KeepsDescriptor(p) ==
  /\ sock[p].live /\ sock'[p].live /\ sock'[p].fd = sock[p].fd
  /\ IsOpen(fdt, sock[p].fd) /\ IsOpen(fdt', sock[p].fd)

\* C18: socket_shutdown with both flags false succeeds with no system call and no
\* change of state; a successful call with one flag leaves connected as it was; a
\* successful call with both flags clears connected; a failed call changes no
\* field; and no operation re-enables a direction that was shut down.
C18_Shutdown ==
  [][ /\ (ShutdownCalled /\ lastOp'.arg = <<FALSE, FALSE>>)
          => /\ lastOp'.ret = TRUE /\ lastOp'.calls = {}
             /\ sock' = sock /\ fdt' = fdt /\ CURRENT_ERROR' = CURRENT_ERROR /\ errno' = errno
      /\ (ShutdownCalled /\ lastOp'.ret = TRUE /\ lastOp'.arg \in {<<TRUE, FALSE>>, <<FALSE, TRUE>>})
          => /\ sock' = sock
             /\ lastOp'.calls = {"shutdown"}
             /\ fdt'[sock[lastOp'.h].fd].rdshut = (fdt[sock[lastOp'.h].fd].rdshut \/ lastOp'.arg[1])
             /\ fdt'[sock[lastOp'.h].fd].wrshut = (fdt[sock[lastOp'.h].fd].wrshut \/ lastOp'.arg[2])
      /\ (ShutdownCalled /\ lastOp'.ret = TRUE /\ lastOp'.arg = <<TRUE, TRUE>>)
          => /\ sock' = [sock EXCEPT ![lastOp'.h].connected = FALSE]
             /\ fdt'[sock[lastOp'.h].fd].rdshut /\ fdt'[sock[lastOp'.h].fd].wrshut
      /\ (lastOp'.op = "socket_shutdown" /\ lastOp'.ret = FALSE)
          => sock' = sock /\ fdt' = fdt
      /\ \A p \in Handles :
           KeepsDescriptor(p)
             => /\ fdt[sock[p].fd].rdshut => fdt'[sock[p].fd].rdshut
                /\ fdt[sock[p].fd].wrshut => fdt'[sock[p].fd].wrshut ]_vars

\* A connected handle was shut down in both directions and is no longer connected.
C18_Witness ==
  /\ lastOp.op = "socket_shutdown" /\ lastOp.h # NULL /\ lastOp.arg = <<TRUE, TRUE>> /\ lastOp.ret = TRUE
  /\ ~sock[lastOp.h].connected /\ ~sock[lastOp.h].closed
  /\ fdt[sock[lastOp.h].fd].conn = "ok"
  /\ fdt[sock[lastOp.h].fd].rdshut /\ fdt[sock[lastOp.h].fd].wrshut

\* The call before the one of the step was a socket_close in which close() failed.
AfterFailedClose == prevClose'.was /\ prevClose'.os /\ ~prevClose'.ret

\* C19: when close() fails inside socket_close, the call returns false and records
\* the classified error, and the handle is unusable from then on: an I/O operation
\* on it is rejected as on a closed handle, with no system call on the descriptor.
C19_FailedCloseUnusable ==
  [][ /\ (lastOp'.op = "socket_close" /\ "close" \in lastOp'.calls /\ lastOp'.native.res # 0)
          => /\ lastOp'.ret = FALSE
             /\ CURRENT_ERROR' = error_set_error(error_get_io_from_system(lastOp'.native.eno),
                                                 lastOp'.native.eno, "Failed to close socket")
      /\ (AfterFailedClose /\ lastOp'.op \in IoOps /\ lastOp'.h = prevClose'.h)
          => /\ lastOp'.calls = {} /\ ~lastOp'.waited
             /\ lastOp'.ret = FailureSentinel(lastOp'.op)
             /\ CURRENT_ERROR'.code = ERROR_IO_NOT_AVAILABLE ]_vars

\* The descriptors that are open in the table F.
OpenFds(F) == {fd \in Fds : F[fd].open}

\* C20: every descriptor socket() or accept() returned is released exactly once:
\* socket_close and socket_free call close() only on a descriptor that is still
\* open, a handle that is freed leaves no descriptor open, and when socket_new or
\* socket_accept returns no handle the descriptor it had obtained is closed again.
C20_ReleasedOnce ==
  [][ /\ (lastOp'.op \in {"socket_close", "socket_free"} /\ "close" \in lastOp'.calls)
          => IsOpen(fdt, sock[lastOp'.h].fd)
      /\ (lastOp'.op = "socket_free" /\ lastOp'.h # NULL)
          => /\ ~sock'[lastOp'.h].live
             /\ OpenFds(fdt') = OpenFds(fdt) \ {sock[lastOp'.h].fd}
      /\ (lastOp'.op \in {"socket_new", "socket_accept"} /\ lastOp'.ret = NULL)
          => /\ OpenFds(fdt') = OpenFds(fdt)
             /\ Live' = Live ]_vars

\* C21: timeout is never negative: socket_set_timeout(t) stores t, or 0 when t is
\* negative, and no other operation changes the timeout of a handle.
C21_TimeoutNonNegative ==
  /\ [](\A p \in Handles : sock[p].live => sock[p].timeout >= 0)
  /\ [][(lastOp'.op = "socket_set_timeout" /\ lastOp'.h # NULL)
          => sock'[lastOp'.h].timeout = (IF lastOp'.arg[1] < 0 THEN 0 ELSE lastOp'.arg[1])]_vars
  /\ [][\A p \in Handles :
          (sock[p].live /\ sock'[p].live /\ sock'[p].timeout # sock[p].timeout)
            => (lastOp'.op = "socket_set_timeout" /\ lastOp'.h = p)]_vars

\* socket_set_timeout was called with a negative timeout, and the handle has none.
C21_Witness ==
  /\ lastOp.op = "socket_set_timeout" /\ lastOp.h # NULL
  /\ lastOp.arg[1] < 0
  /\ sock[lastOp.h].live /\ sock[lastOp.h].timeout = 0

\* C22: listen_backlog is never negative, whatever the arguments
\* socket_set_listen_backlog is called with.
C22_BacklogNonNegative ==
  \A p \in Handles : sock[p].live => sock[p].listen_backlog >= 0

\* C23: the descriptor of every open handle is in non-blocking mode: socket_new
\* and socket_accept (through socket_new_from_fd) return a handle only with the
\* descriptor switched to non-blocking, and socket_set_blocking changes the
\* blocking flag of the handle and nothing else, with no system call.
C23_DescriptorNonBlocking ==
  /\ [](\A p \in Handles :
          (sock[p].live /\ ~sock[p].closed /\ IsOpen(fdt, sock[p].fd)) => fdt[sock[p].fd].nonblock)
  /\ [][(lastOp'.op \in {"socket_new", "socket_accept"} /\ lastOp'.ret # NULL)
          => (IsOpen(fdt', sock'[lastOp'.ret].fd) /\ fdt'[sock'[lastOp'.ret].fd].nonblock)]_vars
  /\ [][(lastOp'.op = "socket_set_blocking" /\ lastOp'.h # NULL)
          => (/\ lastOp'.calls = {}
              /\ fdt' = fdt
              /\ sock' = [sock EXCEPT ![lastOp'.h].blocking = lastOp'.arg[1]])]_vars

\* A handle was set to blocking; its descriptor is open and non-blocking.
C23_Witness ==
  /\ lastOp.op = "socket_set_blocking" /\ lastOp.h # NULL /\ lastOp.arg[1] = TRUE
  /\ sock[lastOp.h].blocking /\ ~sock[lastOp.h].closed
  /\ IsOpen(fdt, sock[lastOp.h].fd) /\ fdt[sock[lastOp.h].fd].nonblock

\* The call of the step is a socket_io_condition_wait on a handle that is not closed.
WaitCalled ==
  lastOp'.op = "socket_io_condition_wait" /\ lastOp'.h # NULL /\ ~sock[lastOp'.h].closed

FailedWithoutTimeout ==
  /\ lastOp'.op \in IoOps \cup {"socket_connect", "socket_io_condition_wait"}
  /\ lastOp'.h # NULL
  /\ sock[lastOp'.h].timeout = 0
  /\ sock[lastOp'.h].blocking \/ lastOp'.op = "socket_io_condition_wait"
  /\ lastOp'.ret = FailureSentinel(lastOp'.op)

MaxT == 3

MaxElapsed == 7

MaxSignals == 2

TimedInit ==
  /\ \E T \in 1..MaxT : sock = [p \in Handles |-> [PairSocket EXCEPT !.fd = p - 1, !.timeout = T]]
  /\ CURRENT_ERROR = NoError
  /\ errno = 0
  /\ fdt = [fd \in Fds |-> [PairFd EXCEPT !.peer = 1 - fd]]
  /\ lastOp = [op |-> "none", h |-> NULL, arg |-> <<>>, ret |-> 0, calls |-> {},
               waited |-> FALSE, native |-> 0]
  /\ prevClose = [was |-> FALSE, h |-> NULL, open |-> FALSE, ret |-> FALSE, os |-> FALSE]
  /\ ops = 0
  /\ stream = [sent |-> <<>>, rcvd |-> <<>>]
  /\ timer = NoTimer
  /\ race = NoRace

\* socket_receive is called: the handle is blocking, so the call enters
\* socket_io_condition_wait and poll() with the timeout of the handle.
TimedReceiveBegins ==
  /\ timer.pc \in {"idle", "done"}
  /\ sock[2].blocking /\ ~sock[2].closed
  /\ timer' = [pc |-> "waiting", elapsed |-> 0, left |-> PollTimeout(sock[2]), signals |-> 0]
  /\ race' = race
  /\ UNCHANGED <<ops, stream, sock, CURRENT_ERROR, errno, fdt, prevClose, lastOp>>

\* One unit of time passes inside poll().
TimedTick ==
  /\ timer.pc = "waiting" /\ timer.left > 0 /\ timer.elapsed < MaxElapsed
  /\ timer' = [timer EXCEPT !.elapsed = @ + 1, !.left = @ - 1]
  /\ race' = race
  /\ UNCHANGED <<ops, stream, sock, CURRENT_ERROR, errno, fdt, prevClose, lastOp>>

\* A signal interrupts poll(): it returns -1 with EINTR and the loop calls it
\* again, with the same timeout.
TimedSignal ==
  /\ timer.pc = "waiting" /\ timer.left > 0 /\ timer.signals < MaxSignals
  /\ timer' = [timer EXCEPT !.left = PollTimeout(sock[2]), !.signals = @ + 1]
  /\ race' = race
  /\ UNCHANGED <<ops, stream, sock, CURRENT_ERROR, errno, fdt, prevClose, lastOp>>

\* The timeout of the poll() in progress has run out: it returns 0, and
\* socket_receive returns what it returns after that wait.
TimedPollReturns ==
  /\ timer.pc = "waiting" /\ timer.left = 0
  /\ LET script == <<[w |-> [eintr |-> timer.signals, evret |-> 0, eno |-> 0, soerr |-> 0],
                      res |-> -1, eno |-> 0]>>
         r == socket_receive(2, Buffer, 1, sock, M, script)
     IN Call("socket_receive", 2, <<Buffer, 1>>, r, 0)
  /\ timer' = [timer EXCEPT !.pc = "done"]
  /\ race' = race
  /\ UNCHANGED <<ops, stream>>

\* The caller changes the timeout between two calls.
TimedSetTimeout ==
  /\ timer.pc \in {"idle", "done"}
  /\ \E timeout \in 1..MaxT :
       Call("socket_set_timeout", 2, <<timeout>>, [socket_set_timeout(2, timeout, sock, M) EXCEPT !.ret = 0], 0)
  /\ timer' = NoTimer
  /\ race' = race
  /\ UNCHANGED <<ops, stream>>

TimedNext ==
  \/ TimedReceiveBegins
  \/ TimedTick
  \/ TimedSignal
  \/ TimedPollReturns
  \/ TimedSetTimeout

TimedSpec == TimedInit /\ [][TimedNext]_vars

\* C26: on a blocking handle with timeout T > 0 whose peer is silent,
\* socket_receive returns -1 with kind timed-out once T has elapsed since the call
\* began and not before; signals that interrupt the wait make it restart but do
\* not keep the call waiting beyond T.
C26_TimesOutAtT ==
  /\ [](timer.pc = "done"
          => (/\ lastOp.op = "socket_receive" => (lastOp.ret = -1 /\ CURRENT_ERROR.code = ERROR_IO_TIMED_OUT)
              /\ timer.elapsed >= sock[2].timeout))
  /\ [](timer.pc = "waiting" => timer.elapsed <= sock[2].timeout)

(***************************************************************************)
(* error_get_io_from_system applied to an error number: errno holds the    *)
(* number, drawn by the initial state, and the call is made once, for the  *)
(* Linux build or for a build with another EWOULDBLOCK.                    *)
(***************************************************************************)
MaxErrno == 130

\* The error numbers classified: all up to MaxErrno, some that are not error
\* numbers, and the ends of the 32-bit range.
ErrnoInputs == (-2..MaxErrno) \cup {EWOULDBLOCK_HPUX, 2147483647, -2147483647 - 1}

ClassifyInit ==
  /\ sock = [p \in Handles |-> NoSocket]
  /\ CURRENT_ERROR = NoError
  /\ errno \in ErrnoInputs
  /\ fdt = [fd \in Fds |-> ClosedFd]
  /\ lastOp = [op |-> "none", h |-> NULL, arg |-> <<>>, ret |-> 0, calls |-> {},
               waited |-> FALSE, native |-> 0]
  /\ prevClose = [was |-> FALSE, h |-> NULL, open |-> FALSE, ret |-> FALSE, os |-> FALSE]
  /\ ops = 0
  /\ stream = [sent |-> <<>>, rcvd |-> <<>>]
  /\ timer = NoTimer
  /\ race = NoRace

ErrorGetIoFromSystem ==
  /\ lastOp.op = "none"
  /\ \E EWOULDBLOCK \in {EAGAIN, EWOULDBLOCK_HPUX} :
       Call("error_get_io_from_system", NULL, <<errno>>,
            Result(sock, M, error_get_io_from_system_build(errno, EWOULDBLOCK), {}, FALSE), EWOULDBLOCK)
  /\ UNCHANGED <<ops, stream, timer, race>>

\* error.c: error_get_last_io, on the Linux build.
ErrorGetLastIo ==
  /\ lastOp.op = "none"
  /\ Call("error_get_last_io", NULL, <<errno>>,
          Result(sock, M, error_get_io_from_system(error_get_last_net(M)), {}, FALSE), EAGAIN)
  /\ UNCHANGED <<ops, stream, timer, race>>

ClassifyNext ==
  \/ ErrorGetIoFromSystem
  \/ ErrorGetLastIo

ClassifySpec == ClassifyInit /\ [][ClassifyNext]_vars

\* error.h: the 23 kinds of ErrorIO.
ErrorIO == ERROR_IO_NONE..ERROR_IO_FAILED

\* The error numbers error_get_io_from_system has a case for, EAGAIN and
\* EWOULDBLOCK apart.
ErrnoCases ==
  {EACCES, EPERM, ENOMEM, ENOSR, ENOBUFS, ENFILE, ENOSPC, EMFILE, EINVAL, EBADF, ENOTSOCK, EFAULT,
   EPROTOTYPE, ENOPROTOOPT, EPROTONOSUPPORT, EAFNOSUPPORT, EOPNOTSUPP, EADDRNOTAVAIL, ENETUNREACH,
   ENETDOWN, EHOSTDOWN, ENONET, EHOSTUNREACH, EINPROGRESS, EALREADY, EISCONN, ECONNREFUSED,
   ENOTCONN, ECONNABORTED, EADDRINUSE, ETIMEDOUT, EDQUOT, EISDIR, ENOTDIR, EEXIST, ENOENT,
   ENAMETOOLONG, ENOSYS}

\* C27: error_get_io_from_system maps every integer to one of the 23 kinds of
\* ErrorIO: 0 to none, every number without a case to the general failure, and
\* EAGAIN and EWOULDBLOCK to would-block, be they the same number or not.
C27_ClassifyTotal ==
  [][(lastOp'.op \in {"error_get_io_from_system", "error_get_last_io"})
       => LET e == lastOp'.arg[1]
              EWOULDBLOCK == lastOp'.native
          IN /\ lastOp'.ret \in ErrorIO
             /\ Cardinality(ErrorIO) = 23
             /\ (e = 0) <=> (lastOp'.ret = ERROR_IO_NONE)
             /\ (e \notin ErrnoCases \cup {0, EAGAIN, EWOULDBLOCK}) => (lastOp'.ret = ERROR_IO_FAILED)
             /\ (e \in {EAGAIN, EWOULDBLOCK}) <=> (lastOp'.ret = ERROR_IO_WOULD_BLOCK)
             /\ UNCHANGED <<CURRENT_ERROR, errno>>]_vars

\* On a build where EWOULDBLOCK is not EAGAIN, EWOULDBLOCK was classified as would-block.
C27_Witness ==
  /\ lastOp.op = "error_get_io_from_system"
  /\ lastOp.native = EWOULDBLOCK_HPUX /\ lastOp.native # EAGAIN
  /\ lastOp.arg[1] = EWOULDBLOCK_HPUX
  /\ lastOp.ret = ERROR_IO_WOULD_BLOCK

(***************************************************************************)
(* error.c: the calls that read and write CURRENT_ERROR, made in any order *)
(* by one thread.                                                          *)
(***************************************************************************)
\* error.c: error_get_code
error_get_code(err) == err.code

\* error.c: error_get_native_code
error_get_native_code(err) == err.native_code

\* error.c: error_get_message
error_get_message(err) == err.message

\* error.c: error_set_code
error_set_code(err, code) == [err EXCEPT !.code = code]

\* error.c: error_set_native_code
error_set_native_code(err, native_code) == [err EXCEPT !.native_code = native_code]

\* error.c: error_set_message
error_set_message(err, message) == [err EXCEPT !.message = message]

\* The arguments the caller passes to the setters.
ErrorCodes == {ERROR_IO_TIMED_OUT, ERROR_IO_FAILED}
NativeCodes == {ETIMEDOUT, EPERM}
Messages == {"Timed out.", "Failed."}

\* A call that writes CURRENT_ERROR and returns nothing.
ErrorCall(name, arg, err) ==
  /\ CanCall
  /\ Op(name, NULL, arg, Result(sock, [M EXCEPT !.err = err], "void", {}, FALSE), 0)

\* A call that returns a field of CURRENT_ERROR.
ErrorRead(name, ret) ==
  /\ CanCall
  /\ Op(name, NULL, <<>>, Result(sock, M, ret, {}, FALSE), 0)

ErrorSetError ==
  \E code \in ErrorCodes, native_code \in NativeCodes, message \in Messages :
    ErrorCall("error_set_error", <<code, native_code, message>>, error_set_error(code, native_code, message))

ErrorSetCode ==
  \E code \in ErrorCodes : ErrorCall("error_set_code", <<code>>, error_set_code(CURRENT_ERROR, code))

ErrorSetNativeCode ==
  \E native_code \in NativeCodes :
    ErrorCall("error_set_native_code", <<native_code>>, error_set_native_code(CURRENT_ERROR, native_code))

ErrorSetMessage ==
  \E message \in Messages :
    ErrorCall("error_set_message", <<message>>, error_set_message(CURRENT_ERROR, message))

ErrorClear == ErrorCall("error_clear", <<>>, error_clear)

ErrorGetCode == ErrorRead("error_get_code", error_get_code(CURRENT_ERROR))

ErrorGetNativeCode == ErrorRead("error_get_native_code", error_get_native_code(CURRENT_ERROR))

ErrorGetMessage == ErrorRead("error_get_message", error_get_message(CURRENT_ERROR))

ErrorNext ==
  \/ ErrorSetError
  \/ ErrorSetCode
  \/ ErrorSetNativeCode
  \/ ErrorSetMessage
  \/ ErrorClear
  \/ ErrorGetCode
  \/ ErrorGetNativeCode
  \/ ErrorGetMessage

ErrorSpec == Init /\ [][ErrorNext]_vars

ErrorSetters == {"error_set_error", "error_set_code", "error_set_native_code", "error_set_message", "error_clear"}
ErrorGetters == {"error_get_code", "error_get_native_code", "error_get_message"}

\* C28: after every call that writes the error state, the triple (code,
\* native_code, message) the getters read is the cleared state, or the triple
\* this one call wrote, or the triple that was there before the call: no call
\* leaves fields written by different updates side by side.
C28_SingleUpdate ==
  [][(lastOp'.op \in ErrorSetters)
       => \/ CURRENT_ERROR' = error_clear
          \/ CURRENT_ERROR' = CURRENT_ERROR
          \/ /\ lastOp'.op = "error_set_error"
             /\ <<error_get_code(CURRENT_ERROR'), error_get_native_code(CURRENT_ERROR'),
                  error_get_message(CURRENT_ERROR')>> = lastOp'.arg]_vars

\* The error state is as the initial state or error_clear left it.
Cleared == lastOp.op \in {"none", "error_clear"}

\* C29: initially and after every error_clear, error_get_code() is
\* ERROR_IO_NONE, the native code is 0 and there is no message, and the calls
\* that only read the error state leave it as it is.
C29_ReadsNoError ==
  /\ [](Cleared => /\ error_get_code(CURRENT_ERROR) = ERROR_IO_NONE
                    /\ error_get_code(CURRENT_ERROR) = error_get_io_from_system(0)
                    /\ error_get_native_code(CURRENT_ERROR) = 0
                    /\ error_get_message(CURRENT_ERROR) = NoMessage)
  /\ [][(lastOp'.op \in ErrorGetters) => UNCHANGED CURRENT_ERROR]_vars

(***************************************************************************)
(* The functions that read a field of a Socket, and the functions of       *)
(* SocketAddress that build an address from its text and write it as a     *)
(* sockaddr.  An address argument is the pointer and the struct it points  *)
(* to; the text of an address is known by what strchr, getaddrinfo and     *)
(* inet_pton answer for it.                                                *)
(***************************************************************************)
\* socket.c: socket_get_fd
socket_get_fd(p, H) == IF p = NULL THEN -1 ELSE H[p].fd

\* socket.c: socket_get_family
socket_get_family(p, H) == IF p = NULL THEN SOCKET_FAMILY_UNKNOWN ELSE H[p].family

\* socket.c: socket_get_type
socket_get_type(p, H) == IF p = NULL THEN SOCKET_TYPE_UNKNOWN ELSE H[p].type

\* socket.c: socket_get_protocol
socket_get_protocol(p, H) == IF p = NULL THEN SOCKET_PROTOCOL_UNKNOWN ELSE H[p].protocol

\* socket.c: socket_get_keepalive
socket_get_keepalive(p, H) == IF p = NULL THEN FALSE ELSE H[p].keepalive

\* socket.c: socket_get_blocking
socket_get_blocking(p, H) == IF p = NULL THEN FALSE ELSE H[p].blocking

\* socket.c: socket_get_listen_backlog
socket_get_listen_backlog(p, H) == IF p = NULL THEN -1 ELSE H[p].listen_backlog

\* socket.c: socket_get_timeout
socket_get_timeout(p, H) == IF p = NULL THEN -1 ELSE H[p].timeout

\* The texts socket_address_new is called with.
AddressTexts == {"127.0.0.1", "::1", "localhost", "12:34"}

\* strchr(address, ':') != NULL
HasColon(text) == text \in {"::1", "12:34"}

\* inet_pton(AF_INET, ...) > 0 and getaddrinfo with AI_NUMERICHOST giving an
\* AF_INET6 address: the text is a numeric address of the family.
IsNumeric(family, text) ==
  \/ family = SOCKET_FAMILY_INET /\ text = "127.0.0.1"
  \/ family = SOCKET_FAMILY_INET6 /\ text = "::1"

\* The SocketAddress no pointer points to.
NoAddress == [family |-> SOCKET_FAMILY_UNKNOWN, port |-> 0]

\* socketaddress.c: socket_address_new; address is the pointer, text the string
\* it points to.  calloc succeeds.  The result is the pointer returned and the
\* struct it points to; m is as it was.
socket_address_new(address, text, port, m) ==
  IF address = NULL
  THEN [Result(<<>>, m, NULL, {}, FALSE) EXCEPT !.out = NoAddress]
  ELSE IF HasColon(text)
  THEN IF IsNumeric(SOCKET_FAMILY_INET6, text)
       THEN [Result(<<>>, m, SomeAddress, {"getaddrinfo"}, FALSE)
               EXCEPT !.out = socket_address_new_from_native([sa_family |-> SOCKET_FAMILY_INET6,
                                                              sin_port |-> htons(port)])]
       ELSE [Result(<<>>, m, NULL, {"getaddrinfo"}, FALSE) EXCEPT !.out = NoAddress]
  ELSE IF IsNumeric(SOCKET_FAMILY_INET, text)
  THEN [Result(<<>>, m, SomeAddress, {"inet_pton"}, FALSE)
          EXCEPT !.out = [family |-> SOCKET_FAMILY_INET, port |-> port]]
  ELSE [Result(<<>>, m, NULL, {"inet_pton"}, FALSE) EXCEPT !.out = NoAddress]

\* sizeof(struct sockaddr_in), sizeof(struct sockaddr_in6), sizeof(struct sockaddr_storage)
SIZEOF_SOCKADDR_IN == 16
SIZEOF_SOCKADDR_IN6 == 28
SIZEOF_SOCKADDR_STORAGE == 128

\* socketaddress.c: socket_address_to_native with the buffer and its length:
\* addr is the pointer, A the struct it points to, dest the buffer pointer.
socket_address_to_native_sized(addr, A, dest, destlen) ==
  IF addr = NULL \/ dest = NULL \/ destlen = 0 THEN FALSE
  ELSE IF A.family = SOCKET_FAMILY_INET THEN destlen >= SIZEOF_SOCKADDR_IN
  ELSE IF A.family = SOCKET_FAMILY_INET6 THEN destlen >= SIZEOF_SOCKADDR_IN6
  ELSE FALSE

\* A call that reads a field of the Socket p points to.
Query(name, p, ret) ==
  /\ CanCall
  /\ Op(name, p, <<>>, Result(sock, M, ret, {}, FALSE), 0)

SocketGetFd == \E p \in Pointers : Query("socket_get_fd", p, socket_get_fd(p, sock))

SocketGetFamily == \E p \in Pointers : Query("socket_get_family", p, socket_get_family(p, sock))

SocketGetType == \E p \in Pointers : Query("socket_get_type", p, socket_get_type(p, sock))

SocketGetProtocol == \E p \in Pointers : Query("socket_get_protocol", p, socket_get_protocol(p, sock))

SocketGetKeepalive == \E p \in Pointers : Query("socket_get_keepalive", p, socket_get_keepalive(p, sock))

SocketGetBlocking == \E p \in Pointers : Query("socket_get_blocking", p, socket_get_blocking(p, sock))

SocketGetListenBacklog ==
  \E p \in Pointers : Query("socket_get_listen_backlog", p, socket_get_listen_backlog(p, sock))

SocketGetTimeout == \E p \in Pointers : Query("socket_get_timeout", p, socket_get_timeout(p, sock))

\* socket_address_new with the address the caller passes; lastOp.native is the
\* struct the returned pointer points to.
SocketAddressNew ==
  /\ CanCall
  /\ \E address \in Addresses, text \in AddressTexts, port \in PeerPorts :
       LET r == socket_address_new(address, text, port, M) IN
       Op("socket_address_new", NULL, <<address, text, port>>, [r EXCEPT !.s = sock], r.out)

\* The buffer lengths socket_address_to_native is called with.
DestLens == {0, SIZEOF_SOCKADDR_IN, SIZEOF_SOCKADDR_IN6, SIZEOF_SOCKADDR_STORAGE}

\* socket_address_to_native of the address the last socket_address_new returned,
\* or of NULL.
SocketAddressToNative ==
  /\ CanCall
  /\ lastOp.op = "socket_address_new"
  /\ \E addr \in {NULL, lastOp.ret}, dest \in {NULL, 1}, destlen \in DestLens :
       Op("socket_address_to_native", NULL, <<addr, dest, destlen>>,
          Result(sock, M, socket_address_to_native_sized(addr, lastOp.native, dest, destlen), {}, FALSE),
          lastOp.native)

QueryNext ==
  \/ SocketNew
  \/ SocketSetTimeout
  \/ SocketGetFd
  \/ SocketGetFamily
  \/ SocketGetType
  \/ SocketGetProtocol
  \/ SocketGetKeepalive
  \/ SocketGetBlocking
  \/ SocketGetListenBacklog
  \/ SocketGetTimeout
  \/ SocketAddressNew
  \/ SocketAddressToNative

QuerySpec == Init /\ [][QueryNext]_vars

\* The functions of Socket that report failure with a sentinel.
SentinelOps == ((DescriptorOps \cup {"socket_new", "socket_close"}) \ VoidOps)

\* The functions that read a field of a Socket and return -1 or false for no Socket.
SentinelGetters ==
  {"socket_get_fd", "socket_get_listen_backlog", "socket_get_timeout", "socket_get_keepalive",
   "socket_get_blocking"}

\* The call of the step returned its failure sentinel: NULL, -1 or false, from
\* a function of Socket, from a function reading a field of no Socket, or from
\* a function of SocketAddress.
ReturnedSentinel ==
  \/ /\ lastOp'.op \in SentinelOps
     /\ IF lastOp'.op = "socket_new" THEN lastOp'.ret = NULL
        ELSE lastOp'.ret = FailureSentinel(lastOp'.op)
  \/ /\ lastOp'.op \in SentinelGetters
     /\ lastOp'.h = NULL
  \/ /\ lastOp'.op = "socket_address_new"
     /\ lastOp'.ret = NULL
  \/ /\ lastOp'.op = "socket_address_to_native"
     /\ lastOp'.ret = FALSE

\* C30: a public operation that returns its failure sentinel (NULL, -1 or
\* false) has recorded a fully populated ErrorState before returning: a kind
\* other than none, and a message.
C30_FailureRecorded ==
  [][ReturnedSentinel
       => /\ error_get_code(CURRENT_ERROR') \notin {0, ERROR_IO_NONE}
          /\ error_get_message(CURRENT_ERROR') # NoMessage]_vars

\* The socket_receive of the step returned -1 because recv() had no data for a
\* handle with blocking = false.
ReceiveWouldBlock ==
  /\ lastOp'.ret = -1
  /\ lastOp'.h # NULL
  /\ ~sock[lastOp'.h].blocking
  /\ "recv" \in lastOp'.calls
  /\ EndedWouldBlock

\* C31: after each socket_receive, error_get_code() describes that call: it is
\* would-block exactly when the call returned -1 for want of data on a handle
\* with blocking = false, and after a call that returned a byte count it is not
\* the kind of an earlier failure.
C31_CodeDescribesCall ==
  [][(lastOp'.op = "socket_receive")
       => /\ (error_get_code(CURRENT_ERROR') = ERROR_IO_WOULD_BLOCK) <=> ReceiveWouldBlock
          /\ (lastOp'.ret >= 0) => (error_get_code(CURRENT_ERROR') \in {0, ERROR_IO_NONE})]_vars

\* The call of the step reached a best-effort setsockopt() and it failed:
\* SO_REUSEADDR or SO_REUSEPORT in socket_bind, SO_RCVBUF in socket_set_buffer_size.
BestEffortFailed ==
  /\ "setsockopt" \in lastOp'.calls
  /\ \/ lastOp'.op = "socket_bind" /\ (lastOp'.native.ra # 0 \/ lastOp'.native.rp # 0)
     \/ lastOp'.op = "socket_set_buffer_size" /\ lastOp'.native # 0

\* The call of the step failed in a step that is not best-effort: the
\* conversion of the address or bind() in socket_bind.
RequiredStepFailed ==
  /\ lastOp'.op = "socket_bind"
  /\ (lastOp'.arg[1] = NULL \/ lastOp'.native.b # 0)

\* C32: the failure of a best-effort setsockopt() (reuse-address and reuse-port
\* in socket_bind, the buffer size in socket_set_buffer_size) does not make the
\* function return false and records no ErrorState.
C32_BestEffortIgnored ==
  [][(BestEffortFailed /\ ~RequiredStepFailed)
       => (lastOp'.ret = TRUE /\ CURRENT_ERROR' = CURRENT_ERROR)]_vars

(***************************************************************************)
(* socketaddress.c, byte by byte.  A native address buffer is a sequence   *)
(* of bytes laid out as struct sockaddr_in (family, port, address, eight   *)
(* bytes of sin_zero) or struct sockaddr_in6 (family, port, flow info,     *)
(* address, scope id) of Linux on a little-endian host.  A SocketAddress   *)
(* is the struct: family, the 16 bytes of the union addr (an IPv4 address  *)
(* in the first four), port, flowinfo and scope_id.  An address argument   *)
(* is the pointer and the struct it points to, a buffer argument the       *)
(* pointer and the bytes.                                                  *)
(***************************************************************************)
Zeros(n) == [i \in 1..n |-> 0]

\* The n bytes of buf after the first off, and buf with bytes copied there.
Get(buf, off, n) == [i \in 1..n |-> buf[off + i]]
Put(buf, off, bytes) ==
  [i \in 1..Len(buf) |-> IF i > off /\ i <= off + Len(bytes) THEN bytes[i - off] ELSE buf[i]]

\* A 16-bit and a 32-bit value of the host as bytes in memory, and back.
Bytes16(x) == <<x % 256, (x \div 256) % 256>>
Bytes32(x) == <<x % 256, (x \div 256) % 256, (x \div 65536) % 256, (x \div 16777216) % 256>>
U16(b) == b[1] + 256 * b[2]
U32(b) == b[1] + 256 * b[2] + 65536 * b[3] + 16777216 * b[4]

\* ntohl on a little-endian host.
ntohl(x) == U32(<<(x \div 16777216) % 256, (x \div 65536) % 256, (x \div 256) % 256, x % 256>>)

\* The offsets of the fields of struct sockaddr_in and struct sockaddr_in6.
OFFSET_SIN_PORT == 2
OFFSET_SIN_ADDR == 4
OFFSET_SIN_ZERO == 8
OFFSET_SIN6_FLOWINFO == 4
OFFSET_SIN6_ADDR == 8
OFFSET_SIN6_SCOPE_ID == 24

\* socketaddress.c: struct SocketAddress, as calloc returns it.
ZeroAddress == [family |-> 0, addr |-> Zeros(16), port |-> 0, flowinfo |-> 0, scope_id |-> 0]

\* What a function of SocketAddress returns: the pointer or value, and the
\* struct or buffer it leaves behind.
Returned(ret, out) == [ret |-> ret, out |-> out]

\* socketaddress.c: socket_address_new_from_native with ntohs left out.
socket_address_new_from_native_len_no_ntohs(native, buf, len) ==
  IF native = NULL \/ len = 0 THEN Returned(NULL, ZeroAddress)
  ELSE IF U16(Get(buf, 0, 2)) = SOCKET_FAMILY_INET /\ len >= SIZEOF_SOCKADDR_IN
  THEN Returned(SomeAddress,
                [ZeroAddress EXCEPT !.addr = Put(Zeros(16), 0, Get(buf, OFFSET_SIN_ADDR, 4)),
                                    !.family = SOCKET_FAMILY_INET,
                                    !.port = U16(Get(buf, OFFSET_SIN_PORT, 2))])
  ELSE Returned(NULL, ZeroAddress)

\* socketaddress.c: socket_address_new_from_native; native is the pointer, buf
\* the bytes it points to, len the length passed.  calloc succeeds.
socket_address_new_from_native_len(native, buf, len) ==
  IF native = NULL \/ len = 0 THEN Returned(NULL, ZeroAddress)
  ELSE LET family == U16(Get(buf, 0, 2)) IN
  IF family = SOCKET_FAMILY_INET
  THEN IF len < SIZEOF_SOCKADDR_IN THEN Returned(NULL, ZeroAddress)
       ELSE Returned(SomeAddress,
                     [ZeroAddress EXCEPT !.addr = Put(Zeros(16), 0, Get(buf, OFFSET_SIN_ADDR, 4)),
                                         !.family = SOCKET_FAMILY_INET,
                                         !.port = ntohs(U16(Get(buf, OFFSET_SIN_PORT, 2)))])
  ELSE IF family = SOCKET_FAMILY_INET6
  THEN IF len < SIZEOF_SOCKADDR_IN6 THEN Returned(NULL, ZeroAddress)
       ELSE Returned(SomeAddress,
                     [ZeroAddress EXCEPT !.addr = Get(buf, OFFSET_SIN6_ADDR, 16),
                                         !.family = SOCKET_FAMILY_INET6,
                                         !.port = ntohs(U16(Get(buf, OFFSET_SIN_PORT, 2))),
                                         !.flowinfo = U32(Get(buf, OFFSET_SIN6_FLOWINFO, 4)),
                                         !.scope_id = U32(Get(buf, OFFSET_SIN6_SCOPE_ID, 4))])
  ELSE Returned(NULL, ZeroAddress)

\* socketaddress.c: socket_address_new_any without the test of the family.
socket_address_new_any_unchecked(family, port) ==
  Returned(SomeAddress, [ZeroAddress EXCEPT !.family = family, !.port = port])

\* socketaddress.c: socket_address_new_any
socket_address_new_any(family, port) ==
  IF family \in {SOCKET_FAMILY_INET, SOCKET_FAMILY_INET6}
  THEN Returned(SomeAddress, [ZeroAddress EXCEPT !.family = family, !.port = port])
  ELSE Returned(NULL, ZeroAddress)

\* IN6ADDR_LOOPBACK_INIT
Loopback6 == Put(Zeros(16), 15, <<1>>)

\* socketaddress.c: socket_address_new_loopback; loop_addr is {127, 0, 0, 0}.
socket_address_new_loopback(family, port) ==
  IF family = SOCKET_FAMILY_INET
  THEN Returned(SomeAddress, [ZeroAddress EXCEPT !.addr = Put(Zeros(16), 0, <<127, 0, 0, 0>>),
                                                 !.family = family, !.port = port])
  ELSE IF family = SOCKET_FAMILY_INET6
  THEN Returned(SomeAddress, [ZeroAddress EXCEPT !.addr = Loopback6, !.family = family, !.port = port])
  ELSE Returned(NULL, ZeroAddress)

\* socketaddress.c: socket_address_to_native without the test of the length.
socket_address_to_native_dest_unchecked(addr, A, dest, D, destlen) ==
  IF addr = NULL \/ dest = NULL \/ destlen = 0 THEN Returned(FALSE, D)
  ELSE IF A.family = SOCKET_FAMILY_INET
  THEN Returned(TRUE, Put(Put(Put(Put(D, OFFSET_SIN_ADDR, Get(A.addr, 0, 4)),
                                  0, Bytes16(SOCKET_FAMILY_INET)),
                              OFFSET_SIN_PORT, Bytes16(htons(A.port))),
                          OFFSET_SIN_ZERO, Zeros(8)))
  ELSE IF A.family = SOCKET_FAMILY_INET6
  THEN Returned(TRUE, Put(Put(Put(Put(Put(D, OFFSET_SIN6_ADDR, A.addr),
                                      0, Bytes16(SOCKET_FAMILY_INET6)),
                                  OFFSET_SIN_PORT, Bytes16(htons(A.port))),
                              OFFSET_SIN6_FLOWINFO, Bytes32(A.flowinfo)),
                          OFFSET_SIN6_SCOPE_ID, Bytes32(A.scope_id)))
  ELSE Returned(FALSE, D)

\* socketaddress.c: socket_address_to_native; addr is the pointer, A the struct
\* it points to, dest the pointer to the buffer, D its destlen bytes.
socket_address_to_native_dest(addr, A, dest, D, destlen) ==
  IF ~socket_address_to_native_sized(addr, A, dest, destlen)
  THEN Returned(FALSE, D)
  ELSE socket_address_to_native_dest_unchecked(addr, A, dest, D, destlen)

\* socketaddress.c: socket_address_get_native_size
socket_address_get_native_size(addr, A) ==
  IF addr = NULL THEN 0
  ELSE IF A.family = SOCKET_FAMILY_INET THEN SIZEOF_SOCKADDR_IN
  ELSE IF A.family = SOCKET_FAMILY_INET6 THEN SIZEOF_SOCKADDR_IN6
  ELSE 0

\* socketaddress.c: socket_address_get_family
socket_address_get_family(addr, A) == IF addr = NULL THEN SOCKET_FAMILY_UNKNOWN ELSE A.family

\* socketaddress.c: socket_address_get_port
socket_address_get_port(addr, A) == IF addr = NULL THEN 0 ELSE A.port

\* socketaddress.c: socket_address_set_flow_info and socket_address_set_scope_id:
\* PLIBSYS_SOCKADDR_IN6_HAS_FLOWINFO and PLIBSYS_SOCKADDR_IN6_HAS_SCOPEID are
\* defined nowhere, so the branch built returns without writing.
socket_address_set_flow_info(addr, A, flowinfo) == A
socket_address_set_scope_id(addr, A, scope_id) == A

\* socketaddress.c: socket_address_is_any
socket_address_is_any(addr, A) ==
  IF addr = NULL \/ A.family = SOCKET_FAMILY_UNKNOWN THEN FALSE
  ELSE IF A.family = SOCKET_FAMILY_INET THEN ntohl(U32(Get(A.addr, 0, 4))) = 0
  ELSE A.addr = Zeros(16)

\* socketaddress.c: socket_address_is_loopback with the mask 0xffffffff.
socket_address_is_loopback_exact(addr, A) ==
  IF addr = NULL \/ A.family = SOCKET_FAMILY_UNKNOWN THEN FALSE
  ELSE IF A.family = SOCKET_FAMILY_INET THEN ntohl(U32(Get(A.addr, 0, 4))) = 2130706433
  ELSE A.addr = Loopback6

\* socketaddress.c: socket_address_is_loopback; (addr4 & 0xff000000) == 0x7f000000
socket_address_is_loopback(addr, A) ==
  IF addr = NULL \/ A.family = SOCKET_FAMILY_UNKNOWN THEN FALSE
  ELSE IF A.family = SOCKET_FAMILY_INET THEN ntohl(U32(Get(A.addr, 0, 4))) \div 16777216 = 127
  ELSE A.addr = Loopback6

(***************************************************************************)
(* The caller of SocketAddress: it builds an address with a constructor,   *)
(* then calls the setters, the queries and socket_address_to_native on it. *)
(* lastOp.h is the pointer the caller holds after a call, lastOp.native.a  *)
(* the struct it points to, lastOp.native.buf the buffer the call read     *)
(* (socket_address_new_from_native) or wrote (socket_address_to_native)    *)
(* and lastOp.native.was that buffer before the call.                      *)
(***************************************************************************)
\* The IPv4 and IPv6 addresses in the buffers.
Addr4s == {<<0, 0, 0, 0>>, <<127, 0, 0, 1>>, <<10, 0, 0, 127>>, <<0, 0, 0, 127>>}
Addr6s == {Zeros(16), Loopback6, Put(Loopback6, 0, <<32, 1>>)}

\* The lengths of the buffers handed to socket_address_new_from_native and
\* socket_address_to_native.
NativeLens == {0, 8, SIZEOF_SOCKADDR_IN, SIZEOF_SOCKADDR_IN6, 32}

\* AF_UNIX, a family that is neither AF_INET nor AF_INET6.
AF_UNIX == 1

\* The 32 bytes of a struct sockaddr_in with sin_zero filled with pad, of a
\* struct sockaddr_in6, and of a sockaddr of family AF_UNIX.
Sockaddr4(port, a, pad) ==
  Put(Put(Put([i \in 1..32 |-> IF i > OFFSET_SIN_ZERO /\ i <= SIZEOF_SOCKADDR_IN THEN pad ELSE 0],
              0, Bytes16(SOCKET_FAMILY_INET)),
          OFFSET_SIN_PORT, Bytes16(htons(port))),
      OFFSET_SIN_ADDR, a)
Sockaddr6(port, a, flowinfo, scope_id) ==
  Put(Put(Put(Put(Put(Zeros(32), 0, Bytes16(SOCKET_FAMILY_INET6)),
                  OFFSET_SIN_PORT, Bytes16(htons(port))),
              OFFSET_SIN6_FLOWINFO, Bytes32(flowinfo)),
          OFFSET_SIN6_ADDR, a),
      OFFSET_SIN6_SCOPE_ID, Bytes32(scope_id))

\* The buffers socket_address_new_from_native is called with.
NativeBuffers ==
  {Sockaddr4(port, a, pad) : port \in PeerPorts, a \in Addr4s, pad \in {0, 255}}
    \cup {Sockaddr6(port, a, f, s) : port \in PeerPorts, a \in Addr6s, f \in {0, 7}, s \in {0, 3}}
    \cup {Put(Zeros(32), 0, Bytes16(AF_UNIX))}

\* The families the constructors are called with.
Families == {SOCKET_FAMILY_UNKNOWN, SOCKET_FAMILY_INET, SOCKET_FAMILY_INET6}

AddressOps ==
  {"socket_address_new_from_native", "socket_address_new_any", "socket_address_new_loopback",
   "socket_address_set_flow_info", "socket_address_set_scope_id", "socket_address_to_native",
   "socket_address_get_native_size", "socket_address_get_family", "socket_address_get_port",
   "socket_address_is_any", "socket_address_is_loopback"}

\* The pointer the caller holds and the struct it points to.
HeldPointer == IF lastOp.op \in AddressOps THEN lastOp.h ELSE NULL
Held == IF lastOp.op \in AddressOps THEN lastOp.native.a ELSE ZeroAddress

\* A call of a function of SocketAddress.
AddressCall(name, arg, ret, addr, A, buf, was) ==
  /\ CanCall
  /\ Op(name, addr, arg, Result(sock, M, ret, {}, FALSE), [a |-> A, buf |-> buf, was |-> was])

SocketAddressNewFromNative ==
  \E native \in {NULL, 1}, b \in NativeBuffers, len \in NativeLens :
    LET buf == IF native = NULL THEN <<>> ELSE SubSeq(b, 1, len)
        r == socket_address_new_from_native_len(native, buf, len)
    IN AddressCall("socket_address_new_from_native", <<native, len>>, r.ret, r.ret, r.out, buf, buf)

SocketAddressNewAny ==
  \E family \in Families, port \in PeerPorts :
    LET r == socket_address_new_any(family, port) IN
    AddressCall("socket_address_new_any", <<family, port>>, r.ret, r.ret, r.out, <<>>, <<>>)

SocketAddressNewLoopback ==
  \E family \in Families, port \in PeerPorts :
    LET r == socket_address_new_loopback(family, port) IN
    AddressCall("socket_address_new_loopback", <<family, port>>, r.ret, r.ret, r.out, <<>>, <<>>)

SocketAddressSetFlowInfo ==
  \E flowinfo \in {0, 7} :
    AddressCall("socket_address_set_flow_info", <<flowinfo>>, "void", HeldPointer,
                socket_address_set_flow_info(HeldPointer, Held, flowinfo), <<>>, <<>>)

SocketAddressSetScopeId ==
  \E scope_id \in {0, 3} :
    AddressCall("socket_address_set_scope_id", <<scope_id>>, "void", HeldPointer,
                socket_address_set_scope_id(HeldPointer, Held, scope_id), <<>>, <<>>)

\* socket_address_to_native into a buffer of destlen bytes, all fill.
SocketAddressToNativeDest ==
  \E dest \in {NULL, 1}, destlen \in NativeLens, fill \in {0, 170} :
    LET D == IF dest = NULL THEN <<>> ELSE [i \in 1..destlen |-> fill]
        r == socket_address_to_native_dest(HeldPointer, Held, dest, D, destlen)
    IN AddressCall("socket_address_to_native", <<dest, destlen>>, r.ret, HeldPointer, Held, r.out, D)

SocketAddressGetNativeSize ==
  AddressCall("socket_address_get_native_size", <<>>, socket_address_get_native_size(HeldPointer, Held),
              HeldPointer, Held, <<>>, <<>>)

SocketAddressGetFamily ==
  AddressCall("socket_address_get_family", <<>>, socket_address_get_family(HeldPointer, Held),
              HeldPointer, Held, <<>>, <<>>)

SocketAddressGetPort ==
  AddressCall("socket_address_get_port", <<>>, socket_address_get_port(HeldPointer, Held),
              HeldPointer, Held, <<>>, <<>>)

SocketAddressIsAny ==
  AddressCall("socket_address_is_any", <<>>, socket_address_is_any(HeldPointer, Held),
              HeldPointer, Held, <<>>, <<>>)

SocketAddressIsLoopback ==
  AddressCall("socket_address_is_loopback", <<>>, socket_address_is_loopback(HeldPointer, Held),
              HeldPointer, Held, <<>>, <<>>)

AddressNext ==
  \/ SocketAddressNewFromNative
  \/ SocketAddressNewAny
  \/ SocketAddressNewLoopback
  \/ SocketAddressSetFlowInfo
  \/ SocketAddressSetScopeId
  \/ SocketAddressToNativeDest
  \/ SocketAddressGetNativeSize
  \/ SocketAddressGetFamily
  \/ SocketAddressGetPort
  \/ SocketAddressIsAny
  \/ SocketAddressIsLoopback

AddressSpec == Init /\ [][AddressNext]_vars

\* The step is a socket_address_new_from_native that returned an address.
BuiltFromNative == lastOp'.op = "socket_address_new_from_native" /\ lastOp'.ret # NULL

\* The step is a socket_address_to_native that returned true.
WrittenToNative == lastOp'.op = "socket_address_to_native" /\ lastOp'.ret = TRUE

\* socket_address_to_native of the address the step built, into a buffer as
\* long as the one it was built from, writes the bytes of the native
\* structure it was built from.
WritesBack ==
  LET b == lastOp'.native.buf
      n == socket_address_get_native_size(lastOp'.h, lastOp'.native.a)
      w == socket_address_to_native_dest(lastOp'.h, lastOp'.native.a, 1, [i \in 1..Len(b) |-> 170], Len(b))
  IN w.ret = TRUE /\ SubSeq(w.out, 1, n) = SubSeq(b, 1, n)

\* socket_address_new_from_native of the buffer the step wrote builds an
\* address with the family, address bytes, port, flow info and scope id of the
\* address written.
ReadsBack ==
  LET r == socket_address_new_from_native_len(1, lastOp'.native.buf, Len(lastOp'.native.buf))
  IN r.ret # NULL /\ r.out = lastOp'.native.a

ZeroPadding ==
  (lastOp'.native.a.family = SOCKET_FAMILY_INET)
    => (Get(lastOp'.native.buf, OFFSET_SIN_ZERO, 8) = Zeros(8))

ToNativeCalled ==
  /\ lastOp'.op = "socket_address_to_native"
  /\ lastOp'.h # NULL
  /\ lastOp'.arg[1] # NULL

\* C34: for every constructed SocketAddress and destination length n,
\* socket_address_to_native returns true if and only if n is at least
\* socket_address_get_native_size of the address, and when it returns false
\* the destination buffer is as it was.
C34_SucceedsIffFits ==
  [][ToNativeCalled
       => /\ (lastOp'.ret = TRUE)
               <=> (lastOp'.arg[2] >= socket_address_get_native_size(lastOp'.h, lastOp'.native.a))
          /\ (lastOp'.ret = FALSE) => (lastOp'.native.buf = lastOp'.native.was)]_vars

\* socket_address_to_native of an IPv6 address into a buffer of
\* sizeof(struct sockaddr_in) bytes returned false.
C34_Witness ==
  /\ lastOp.op = "socket_address_to_native"
  /\ lastOp.h # NULL
  /\ lastOp.arg = <<1, SIZEOF_SOCKADDR_IN>>
  /\ lastOp.native.a.family = SOCKET_FAMILY_INET6
  /\ lastOp.ret = FALSE
  /\ lastOp.native.buf = [i \in 1..SIZEOF_SOCKADDR_IN |-> 170]

Constructors == {"socket_address_new_from_native", "socket_address_new_any", "socket_address_new_loopback"}

\* C35: every SocketAddress a constructor returns has family IPv4 or IPv6:
\* socket_address_new_from_native returns NULL unless the family of the buffer
\* is AF_INET or AF_INET6 and the length at least the size of that structure,
\* socket_address_new_any and socket_address_new_loopback return NULL for any
\* other family, and no later call changes the family.
C35_FamilyKnown ==
  [][(lastOp'.op \in AddressOps)
       => /\ (lastOp'.h # NULL)
               => (lastOp'.native.a.family \in {SOCKET_FAMILY_INET, SOCKET_FAMILY_INET6})
          /\ (lastOp'.op = "socket_address_new_from_native" /\ lastOp'.ret # NULL)
               => LET tag == U16(Get(lastOp'.native.buf, 0, 2)) IN
                  \/ tag = SOCKET_FAMILY_INET /\ lastOp'.arg[2] >= SIZEOF_SOCKADDR_IN
                  \/ tag = SOCKET_FAMILY_INET6 /\ lastOp'.arg[2] >= SIZEOF_SOCKADDR_IN6
          /\ (lastOp'.op \in {"socket_address_new_any", "socket_address_new_loopback"}
                /\ lastOp'.arg[1] \notin {SOCKET_FAMILY_INET, SOCKET_FAMILY_INET6})
               => (lastOp'.ret = NULL)
          /\ (lastOp'.op \notin Constructors)
               => (lastOp'.h = HeldPointer /\ lastOp'.native.a.family = Held.family)]_vars

\* A setter was called on an address a constructor returned.
C35_Witness ==
  /\ lastOp.op \in {"socket_address_set_flow_info", "socket_address_set_scope_id"}
  /\ lastOp.arg[1] # 0
  /\ lastOp.h # NULL
  /\ lastOp.native.a.family = SOCKET_FAMILY_INET6

\* The pointer and the struct the call of the step leaves with the caller.
AddressAfter == lastOp'.native.a

\* C36: for IPv4 and IPv6 and every port p, the address of
\* socket_address_new_any(f, p) is any and not loopback, that of
\* socket_address_new_loopback(f, p) is loopback and not any, and
\* socket_address_get_port returns p; an IPv4 address is loopback exactly when
\* its first byte is 127 and any exactly when its four bytes are 0.
C36_AnyAndLoopback ==
  [][ /\ (lastOp'.op = "socket_address_new_any" /\ lastOp'.ret # NULL)
           => /\ socket_address_is_any(lastOp'.h, AddressAfter)
              /\ ~socket_address_is_loopback(lastOp'.h, AddressAfter)
              /\ socket_address_get_port(lastOp'.h, AddressAfter) = lastOp'.arg[2]
      /\ (lastOp'.op = "socket_address_new_loopback" /\ lastOp'.ret # NULL)
           => /\ socket_address_is_loopback(lastOp'.h, AddressAfter)
              /\ ~socket_address_is_any(lastOp'.h, AddressAfter)
              /\ socket_address_get_port(lastOp'.h, AddressAfter) = lastOp'.arg[2]
      /\ (lastOp'.op = "socket_address_is_loopback" /\ lastOp'.h # NULL
            /\ AddressAfter.family = SOCKET_FAMILY_INET)
           => (lastOp'.ret <=> (AddressAfter.addr[1] = 127))
      /\ (lastOp'.op = "socket_address_is_any" /\ lastOp'.h # NULL
            /\ AddressAfter.family = SOCKET_FAMILY_INET)
           => (lastOp'.ret <=> (Get(AddressAfter.addr, 0, 4) = Zeros(4)))
      /\ (lastOp'.op = "socket_address_get_port" /\ lastOp'.h # NULL)
           => (lastOp'.ret = Held.port)]_vars

\* socket_address_is_loopback was asked about the IPv4 address
\* socket_address_new_loopback builds, 127.0.0.0, and answered true.
C36_Witness ==
  /\ lastOp.op = "socket_address_is_loopback"
  /\ lastOp.h # NULL
  /\ lastOp.native.a.family = SOCKET_FAMILY_INET
  /\ Get(lastOp.native.a.addr, 0, 4) = <<127, 0, 0, 0>>
  /\ lastOp.ret = TRUE

(***************************************************************************)
(* socket_io_condition_wait with the events poll() reports.  poll() writes *)
(* pfd.revents: the requested event when the descriptor is ready for it,   *)
(* and POLLERR, POLLHUP and POLLNVAL whether requested or not; it returns  *)
(* 1 whenever revents is not empty.  socket_io_condition_wait reads evret  *)
(* and never pfd.revents.                                                  *)
(***************************************************************************)
\* pfd.events for the condition.
PollEvent(condition) == IF condition = SOCKET_IO_CONDITION_POLLIN THEN "POLLIN" ELSE "POLLOUT"

\* What poll() may leave in pfd.revents when it returns w.evret.
Revents(F, fd, condition, w) ==
  IF w.evret # 1 THEN {{}}
  ELSE IF ~IsOpen(F, fd) THEN {{"POLLNVAL"}}
  ELSE SUBSET {PollEvent(condition), "POLLERR", "POLLHUP"} \ {{}}

SocketIoConditionWaitEvents ==
  /\ CanCall
  /\ \E p \in Callers : \E condition \in {SOCKET_IO_CONDITION_POLLIN, SOCKET_IO_CONDITION_POLLOUT} :
       \E w \in PollOracles(fdt, fdOf(p), condition, IF p = NULL THEN -1 ELSE PollTimeout(sock[p])) :
         LET r == socket_io_condition_wait(p, condition, sock, M, w) IN
         \E revents \in (IF r.waited THEN Revents(fdt, fdOf(p), condition, w) ELSE {{}}) :
           /\ r.waited \/ w = NoWait
           /\ Op("socket_io_condition_wait", p, <<condition>>, r, [w |-> w, revents |-> revents])

WaitNext ==
  \/ SocketNew
  \/ SocketSetTimeout
  \/ SocketClose
  \/ SocketIoConditionWaitEvents

WaitSpec == Init /\ [][WaitNext]_vars

\* C37: socket_io_condition_wait returns true only when the descriptor is
\* ready for the requested direction: when poll() reports only an error or a
\* hang-up for it, the call does not return true.
C37_ReadyMeansReady ==
  [][(lastOp'.op = "socket_io_condition_wait" /\ lastOp'.ret = TRUE)
       => (PollEvent(lastOp'.arg[1]) \in lastOp'.native.revents)]_vars

\* The call of the step recorded an ErrorState with a native code.
RecordedNative ==
  /\ lastOp'.op \in DescriptorOps \cup VoidOps \cup {"socket_new", "socket_close", "socket_free"}
  /\ CURRENT_ERROR' # CURRENT_ERROR
  /\ error_get_native_code(CURRENT_ERROR') # 0

\* C38: whenever a Socket operation records an ErrorState with a non-zero
\* native code, the kind recorded is error_get_io_from_system of that code, the
\* timed-out end of a wait that follows a would-block or an EINTR inside the
\* same call included.
C38_KindOfNative ==
  [][RecordedNative
       => (error_get_code(CURRENT_ERROR') = error_get_io_from_system(error_get_native_code(CURRENT_ERROR')))]_vars

\* ---------------------------------------------------------------------------
\* Two threads failing at once: error_set_error step by step.
\*
\* CURRENT_ERROR is one static object without a lock.  Each thread owns one
\* Socket handle (thread t owns handle t) and calls an operation on it that
\* fails; the operation's work on the handle and the descriptor is done when
\* it calls error_set_error, whose statements then run one at a time,
\* interleaved with the other thread's.  Here CURRENT_ERROR.message is a
\* pointer to a buffer made by strdup (NULL before the first), race.text the
\* buffers' contents, race.frees how many times free() was called on each,
\* race.seen the pointer a thread loaded in the NULL test and race.pend the
\* arguments of its error_set_error call.
\* ---------------------------------------------------------------------------
MessageBuffers == 1..(2 * MaxCalls)

RaceStart ==
  [pc |-> NoRace.pc, seen |-> NoRace.seen, calls |-> NoRace.calls, made |-> 0, frees |-> NoRace.frees,
   text |-> [b \in MessageBuffers |-> NoMessage], pend |-> [t \in Threads |-> NoError]]

RaceInit ==
  /\ sock = [p \in Handles |-> [PairSocket EXCEPT !.fd = p - 1]]
  /\ CURRENT_ERROR = [code |-> 0, native_code |-> 0, message |-> NULL]
  /\ errno = 0
  /\ fdt = [fd \in Fds |-> [PairFd EXCEPT !.peer = 1 - fd]]
  /\ lastOp = [op |-> "none", h |-> NULL, arg |-> <<>>, ret |-> FALSE, calls |-> {},
               waited |-> FALSE, native |-> 0]
  /\ prevClose = [was |-> FALSE, h |-> NULL, open |-> FALSE, ret |-> FALSE, os |-> FALSE]
  /\ ops = 0
  /\ stream = [sent |-> <<>>, rcvd |-> <<>>]
  /\ timer = NoTimer
  /\ race = RaceStart

\* The failing calls a thread makes on its handle: socket_bind without an
\* address, and socket_shutdown of one direction refused by the system.
FailingCalls(t) ==
  {[op |-> "socket_bind",
    r |-> socket_bind(t, NULL, FALSE, sock, M, [ra |-> 0, rp |-> 0, b |-> 0])],
   [op |-> "socket_shutdown",
    r |-> socket_shutdown(t, TRUE, FALSE, sock, M, ENOTCONN)]}

\* Thread t runs an operation up to its call of error_set_error.
RaceCall(t) ==
  /\ race.pc[t] = "idle"
  /\ race.calls[t] < MaxCalls
  /\ \E c \in FailingCalls(t) :
       /\ c.r.ret = FALSE
       /\ sock' = c.r.s
       /\ errno' = c.r.m.errno
       /\ fdt' = c.r.m.fdt
       /\ race' = [race EXCEPT !.pc[t] = "test", !.pend[t] = c.r.m.err]
       /\ lastOp' = [op |-> c.op, h |-> t, arg |-> <<>>, ret |-> FALSE, calls |-> c.r.calls,
                     waited |-> FALSE, native |-> error_get_native_code(c.r.m.err)]
  /\ UNCHANGED <<CURRENT_ERROR, prevClose, ops, stream, timer>>

\* if (CURRENT_ERROR.message != NULL)
RaceTest(t) ==
  /\ race.pc[t] = "test"
  /\ race' = [race EXCEPT !.seen[t] = CURRENT_ERROR.message,
                          !.pc[t] = IF CURRENT_ERROR.message # NULL THEN "free" ELSE "code"]
  /\ UNCHANGED <<sock, CURRENT_ERROR, errno, fdt, lastOp, prevClose, ops, stream, timer>>

\*   free(CURRENT_ERROR.message);
RaceFree(t) ==
  /\ race.pc[t] = "free"
  /\ race' = [race EXCEPT !.frees[race.seen[t]] = @ + 1, !.pc[t] = "code"]
  /\ UNCHANGED <<sock, CURRENT_ERROR, errno, fdt, lastOp, prevClose, ops, stream, timer>>

\* CURRENT_ERROR.code = code;
RaceSetCode(t) ==
  /\ race.pc[t] = "code"
  /\ CURRENT_ERROR' = [CURRENT_ERROR EXCEPT !.code = race.pend[t].code]
  /\ race' = [race EXCEPT !.pc[t] = "native"]
  /\ UNCHANGED <<sock, errno, fdt, lastOp, prevClose, ops, stream, timer>>

\* CURRENT_ERROR.native_code = native_code;
RaceSetNative(t) ==
  /\ race.pc[t] = "native"
  /\ CURRENT_ERROR' = [CURRENT_ERROR EXCEPT !.native_code = race.pend[t].native_code]
  /\ race' = [race EXCEPT !.pc[t] = "strdup"]
  /\ UNCHANGED <<sock, errno, fdt, lastOp, prevClose, ops, stream, timer>>

\* CURRENT_ERROR.message = strdup(message); and the operation returns.
RaceStrdup(t) ==
  /\ race.pc[t] = "strdup"
  /\ LET b == race.made + 1 IN
       /\ CURRENT_ERROR' = [CURRENT_ERROR EXCEPT !.message = b]
       /\ race' = [race EXCEPT !.made = b, !.text[b] = race.pend[t].message, !.pc[t] = "idle",
                               !.calls[t] = @ + 1, !.pend[t] = NoError]
  /\ UNCHANGED <<sock, errno, fdt, lastOp, prevClose, ops, stream, timer>>

RaceNext ==
  \E t \in Threads :
    \/ RaceCall(t)
    \/ RaceTest(t)
    \/ RaceFree(t)
    \/ RaceSetCode(t)
    \/ RaceSetNative(t)
    \/ RaceStrdup(t)

RaceSpec == RaceInit /\ [][RaceNext]_vars

\* The handles as they are after the two threads' failing calls run one after
\* the other: a failing socket_bind or socket_shutdown changes no field.
SequentialHandles == [p \in Handles |-> [PairSocket EXCEPT !.fd = p - 1]]

\* Claim C39: under any interleaving of two threads that each fail an
\* operation on their own handle, every message buffer the ErrorState stored
\* is released at most once, the stored message refers to a live buffer
\* whenever no thread is inside error_set_error, and the fields of both
\* handles are those of the two calls run one after the other.
C39_ErrorStateWellFormed ==
  /\ \A b \in MessageBuffers : race.frees[b] <= 1
  /\ ((\A t \in Threads : race.pc[t] = "idle") /\ CURRENT_ERROR.message # NULL)
       => race.frees[CURRENT_ERROR.message] = 0
  /\ sock = SequentialHandles

\* socket_is_connected: the connected field, false for a NULL handle.
socket_is_connected(p, H) == IF p = NULL THEN FALSE ELSE H[p].connected

\* Both directions of the descriptor of handle p are shut down in table F.
BothShutDown(H, F, p) == F[H[p].fd].rdshut /\ F[H[p].fd].wrshut

\* Claim C40: connected tracks the shutdown state across calls: after a
\* successful socket_shutdown that leaves both directions shut down, in one
\* call or as the second of two one-direction calls, connected is false.
C40_ConnectedTracksShutdown ==
  [][(ShutdownCalled /\ lastOp'.ret = TRUE /\ BothShutDown(sock, fdt', lastOp'.h))
       => ~socket_is_connected(lastOp'.h, sock')]_vars

====
